---- MODULE Spec2Model ----
(***************************************************************************)
(* A model of the tagihan-wifi billing backend: the opaque identifier      *)
(* codec (app/core/sqids_manager.py), the role checks of the routers       *)
(* (app/core/rbac.py, app/routers), the repositories and the paginator     *)
(* (app/repositories, app/core/pagination.py) over the tables of           *)
(* app/core/database.py, and the connections requests take from get_db     *)
(* and from the pool of app/core/database_ori.py.                          *)
(*                                                                         *)
(* Strings that the codec reads or writes are sequences of character       *)
(* codes (ord), because the sqids algorithm computes with ord().           *)
(***************************************************************************)
EXTENDS Integers, Sequences, FiniteSets, TLC

VARIABLES
    tagihan,    \* the rows of table tagihan
    pelanggan,  \* the rows of table pelanggan
    paket,      \* the rows of table paket
    users,      \* the rows of table users
    seq_paket,  \* the next value of sequence seq_paket
    writes,     \* the number of requests that changed a table or a sequence
    resp,       \* the response to the request being answered, or NoResp
    encLog,     \* the SqidsManager.encode calls made so far: <<[number, salt, out]>>
    decoded,    \* the last SqidsManager.decode call: [input, raised, value] or NoCall
    db,         \* the storage connections: the pool, the closed ones, who holds which
    auth        \* the auth router: registrations under way, reset tokens issued, the clock

vars == <<tagihan, pelanggan, paket, users, seq_paket, writes, resp, encLog, decoded,
          db, auth>>

\* the variables of the HTTP API
apiVars == <<tagihan, pelanggan, paket, users, seq_paket, writes, resp>>

\* Python's None where an Optional[int] is expected (ids and salts are >= 0).
None == -1

----------------------------------------------------------------------------
(* Bounds of the model.                                                    *)

\* ids handed to encode are 0..MaxId
MaxId == 3
\* each noise component drawn by encode (random1, random2, timestamp) is 0..MaxNoise
MaxNoise == 1
\* an explicit salt is 0..MaxSalt (the summary draws secrets.randbelow(1_000))
MaxSalt == 2
\* strings handed to decode by a client have at most MaxStrLen characters
MaxStrLen == 4
\* Settings.sqids_min_length
MinLength == 4
\* requests that change a table or a sequence, per behaviour
MaxWrites == 1
MaxPage == 3
MaxSize == 3
MaxExtra == 1

\* the number of requests in flight at once
MaxRequests == 2

\* the size of the global connection pool
pool_size == 3

Requests == 1..MaxRequests

\* the list of open connections _initialize_pool leaves, a connection being
\* a number
RECURSIVE initialize_pool(_)
initialize_pool(n) ==
    IF n = 0 THEN <<>> ELSE Append(initialize_pool(n - 1), n)

\* a pool after construction and no request started: its size, the list of
\* pooled connections, the closed connections and cursors, where each
\* request stands, by which way it took its connection, and the connection
\* it holds
DuckDBConnectionPool_init(size) ==
    [pool_size |-> size,
     connections |-> initialize_pool(size),
     closed |-> {},
     at |-> [r \in Requests |-> "idle"],
     via |-> [r \in Requests |-> ""],
     conn |-> [r \in Requests |-> None]]

\* the global pool
DuckDBConnectionPool == DuckDBConnectionPool_init(pool_size)

\* the sizes of the pools built apart from the global one
MaxPoolSize == 2

\* the reset tokens generate_reset_token may draw
MaxTokens == 2

\* the hours the clock may pass
MaxTime == 1

\* the auth router at rest: no registration between its checks and its
\* INSERT, no reset token issued, none used in a reset, the clock (in hours)
\* at 0
NoAuth == [pending |-> [r \in Requests |-> <<>>], issued |-> {}, used |-> {}, now |-> 0]

----------------------------------------------------------------------------
(* The sqids library, as SqidsManager configures and calls it.             *)

\* Settings.sqids_alphabet: the characters a, b, c, d, e as character codes.
ConfiguredAlphabet == <<97, 98, 99, 100, 101>>

\* A character outside the configured alphabet ("-", as in "invalid-id").
ForeignChar == 45

\* The blocklist left after Sqids.__init__ filters it by the alphabet: one word, "bade".
Blocklist == { <<98, 97, 100, 101>> }

RECURSIVE ShuffleLoop(_, _, _)
ShuffleLoop(chars, i, j) ==
    IF j <= 0 THEN chars
    ELSE LET n == Len(chars)
             r == (i * j + chars[i + 1] + chars[j + 1]) % n
             swapped == [chars EXCEPT ![i + 1] = chars[r + 1], ![r + 1] = chars[i + 1]]
         IN ShuffleLoop(swapped, i + 1, j - 1)

\* Sqids.__shuffle: the consistent shuffle of an alphabet.
Sqids_shuffle(alphabet) == ShuffleLoop(alphabet, 0, Len(alphabet) - 1)

\* self.__alphabet, shuffled once by the constructor.
SqidsAlphabet == Sqids_shuffle(ConfiguredAlphabet)

Rotate(s, offset) == SubSeq(s, offset + 1, Len(s)) \o SubSeq(s, 1, offset)

RECURSIVE Reverse(_)
\* alphabet[::-1]
Reverse(s) == IF s = <<>> THEN <<>> ELSE Reverse(Tail(s)) \o <<Head(s)>>

Tail1(s) == SubSeq(s, 2, Len(s))

IndexOf(s, c) == CHOOSE i \in 1..Len(s) : s[i] = c

Contains(s, c) == \E i \in 1..Len(s) : s[i] = c

RECURSIVE Sqids_to_id(_, _)
\* Sqids.__to_id: num in base Len(alphabet), most significant digit first.
Sqids_to_id(num, alphabet) ==
    LET n == Len(alphabet)
        last == <<alphabet[(num % n) + 1]>>
    IN IF num \div n = 0 THEN last ELSE Sqids_to_id(num \div n, alphabet) \o last

RECURSIVE Sqids_to_number(_, _)
\* Sqids.__to_number: the inverse of __to_id.
Sqids_to_number(id, alphabet) ==
    IF id = <<>> THEN 0
    ELSE Sqids_to_number(SubSeq(id, 1, Len(id) - 1), alphabet) * Len(alphabet)
         + (IndexOf(alphabet, id[Len(id)]) - 1)

\* word occurs in id starting at position p
OccursAt(id, word, p) == SubSeq(id, p, p + Len(word) - 1) = word

\* Sqids.__is_blocked_id (the blocklist holds no word with a digit).
Sqids_is_blocked_id(id) ==
    \E word \in Blocklist :
        /\ Len(word) <= Len(id)
        /\ IF Len(id) <= 3 \/ Len(word) <= 3
           THEN id = word
           ELSE \E p \in 1..(Len(id) - Len(word) + 1) : OccursAt(id, word, p)

RECURSIVE OffsetSum(_, _)
\* sum(ord(alphabet[v % len]) + i for i, v in enumerate(numbers)), i from 0
OffsetSum(numbers, k) ==
    IF k = 0 THEN 0
    ELSE OffsetSum(numbers, k - 1)
         + SqidsAlphabet[(numbers[k] % Len(SqidsAlphabet)) + 1] + (k - 1)

RECURSIVE ShuffleTimes(_, _)
\* the alphabet after k rounds of __shuffle
ShuffleTimes(alphabet, k) ==
    IF k = 0 THEN alphabet ELSE ShuffleTimes(Sqids_shuffle(alphabet), k - 1)

RECURSIVE EncodeLoop(_, _, _)
\* the for loop of __encode_numbers over numbers[1..i]: each number written
\* with the alphabet of its round, a separator between two numbers
EncodeLoop(numbers, i, alphabet) ==
    IF i = 0 THEN <<>>
    ELSE LET roundAlphabet == ShuffleTimes(alphabet, i - 1)
             chunk == Sqids_to_id(numbers[i], Tail1(roundAlphabet))
         IN IF i = 1 THEN chunk
            ELSE EncodeLoop(numbers, i - 1, alphabet)
                 \o <<ShuffleTimes(alphabet, i - 2)[1]>> \o chunk

Min(a, b) == IF a < b THEN a ELSE b

RECURSIVE PadLoop(_, _)
\* the while loop that pads an id up to min_length
PadLoop(id, alphabet) ==
    IF MinLength - Len(id) <= 0 THEN id
    ELSE LET shuffled == Sqids_shuffle(alphabet)
         IN PadLoop(id \o SubSeq(shuffled, 1, Min(MinLength - Len(id), Len(shuffled))),
                    shuffled)

RECURSIVE Sqids_encode_numbers(_, _)
\* Sqids.__encode_numbers; <<>> stands for the ValueError "Reached max attempts".
Sqids_encode_numbers(numbers, increment) ==
    IF increment > Len(SqidsAlphabet) THEN <<>>
    ELSE LET n == Len(SqidsAlphabet)
             offset == (((OffsetSum(numbers, Len(numbers)) + Len(numbers)) % n) + increment) % n
             rotated == Rotate(SqidsAlphabet, offset)
             prefix == rotated[1]
             reversed == Reverse(rotated)
             encoded == <<prefix>> \o EncodeLoop(numbers, Len(numbers), reversed)
             shuffled == ShuffleTimes(reversed, Len(numbers) - 1)
             padded == IF MinLength > Len(encoded)
                       THEN PadLoop(encoded \o <<shuffled[1]>>, shuffled)
                       ELSE encoded
         IN IF Sqids_is_blocked_id(padded)
            THEN Sqids_encode_numbers(numbers, increment + 1)
            ELSE padded

\* Sqids.encode (numbers are non-negative here)
Sqids_encode(numbers) ==
    IF numbers = <<>> THEN <<>> ELSE Sqids_encode_numbers(numbers, 0)

\* position of the first separator in s, or 0
FirstSep(s, sep) ==
    IF Contains(s, sep) THEN CHOOSE i \in 1..Len(s) : s[i] = sep /\ \A k \in 1..(i - 1) : s[k] # sep
    ELSE 0

\* chunks[0] of id.split(separator)
FirstChunk(id, separator) ==
    IF FirstSep(id, separator) = 0 THEN id
    ELSE SubSeq(id, 1, FirstSep(id, separator) - 1)

\* separator.join(chunks[1:]) of id.split(separator)
AfterFirstChunk(id, separator) ==
    IF FirstSep(id, separator) = 0 THEN <<>>
    ELSE SubSeq(id, FirstSep(id, separator) + 1, Len(id))

RECURSIVE DecodeLoop(_, _, _)
\* the while loop of Sqids.decode
DecodeLoop(id, alphabet, ret) ==
    IF id = <<>> THEN ret
    ELSE IF FirstChunk(id, alphabet[1]) = <<>> THEN ret
    ELSE DecodeLoop(AfterFirstChunk(id, alphabet[1]),
                    IF FirstSep(id, alphabet[1]) # 0
                    THEN Sqids_shuffle(alphabet) ELSE alphabet,
                    Append(ret, Sqids_to_number(FirstChunk(id, alphabet[1]),
                                                Tail1(alphabet))))

\* Sqids.decode: the list of numbers of an id; <<>> for an empty id or an id
\* with a character outside the alphabet.
Sqids_decode(id) ==
    IF id = <<>> THEN <<>>
    ELSE IF \E i \in 1..Len(id) : ~Contains(SqidsAlphabet, id[i]) THEN <<>>
    ELSE LET offset == IndexOf(SqidsAlphabet, id[1]) - 1
         IN DecodeLoop(Tail1(id), Reverse(Rotate(SqidsAlphabet, offset)), <<>>)

----------------------------------------------------------------------------
(* SqidsManager                                                            *)

\* Python truthiness of an Optional[int]: None and 0 are falsy.
Truthy(x) == x # None /\ x # 0

\* encode that leaves the timestamp component out of the noise
encode_without_timestamp(number, salt, random1, random2, timestamp_component) ==
    Sqids_encode(IF ~Truthy(salt)
                 THEN <<number, random1, random2>>
                 ELSE <<number, salt>>)

\* SqidsManager.encode with the values it draws: random1, random2 and the
\* timestamp component.
encode(number, salt, random1, random2, timestamp_component) ==
    Sqids_encode(IF ~Truthy(salt)
                 THEN <<number, random1, random2, timestamp_component>>
                 ELSE <<number, salt>>)

\* The try block of SqidsManager.decode: decode_numbers[0] raises IndexError
\* when the library returns an empty list.
decode_try(encoded_str) ==
    IF Sqids_decode(encoded_str) = <<>>
    THEN [raised |-> TRUE, value |-> None]
    ELSE [raised |-> FALSE, value |-> Sqids_decode(encoded_str)[1]]

\* decode without its except clause
decode_no_except(encoded_str) == decode_try(encoded_str)

\* decode returning the last decoded number instead of the first
decode_last(encoded_str) ==
    IF Sqids_decode(encoded_str) = <<>>
    THEN [raised |-> FALSE, value |-> None]
    ELSE [raised |-> FALSE,
          value |-> Sqids_decode(encoded_str)[Len(Sqids_decode(encoded_str))]]

\* SqidsManager.decode: [raised, value]; the except clause turns every
\* exception of the try block into the return value None.
decode(encoded_str) ==
    IF decode_try(encoded_str).raised
    THEN [raised |-> FALSE, value |-> None]
    ELSE decode_try(encoded_str)

----------------------------------------------------------------------------
(* The tables of app/core/database.py.  Text columns are sequences of      *)
(* character codes; a DATE is the integer yyyymmdd; NULL is None.  The     *)
(* free-text columns alamat and no_hp, nominal and the created_at /        *)
(* updated_at timestamps (never NULL: DEFAULT CURRENT_TIMESTAMP) are left  *)
(* out of the rows: no handler branches on them.                           *)

\* init_db: the two paket rows ("P1", 50, "5M"), ("P2", 100, "10M")
SeedPaket ==
    { [id |-> 1, nama |-> <<80, 49>>, harga |-> 50, kecepatan |-> <<53, 77>>],
      [id |-> 2, nama |-> <<80, 50>>, harga |-> 100, kecepatan |-> <<49, 48, 77>>] }

\* init_db: the two pelanggan rows ("n1", paket 1), ("n2", paket 2)
SeedPelanggan ==
    { [id |-> 1, nama |-> <<110, 49>>, paket_id |-> 1],
      [id |-> 2, nama |-> <<110, 50>>, paket_id |-> 2] }

\* init_db's two tagihan rows of pelanggan 1, and two rows of pelanggan 2 as
\* the tests insert them: one without tanggal_bayar, one paid, both for the
\* same period (so that UNIQUE(tahun, bulan, pelanggan_id) admits only one).
CandidateTagihan ==
    { [id |-> 1, pelanggan_id |-> 1, paket_id |-> 1, tahun |-> 2025, bulan |-> 9,
       tanggal_bayar |-> 20250915],
      [id |-> 2, pelanggan_id |-> 1, paket_id |-> 1, tahun |-> 2025, bulan |-> 10,
       tanggal_bayar |-> 20251015],
      [id |-> 3, pelanggan_id |-> 2, paket_id |-> 2, tahun |-> 2025, bulan |-> 9,
       tanggal_bayar |-> None],
      [id |-> 4, pelanggan_id |-> 2, paket_id |-> 1, tahun |-> 2025, bulan |-> 9,
       tanggal_bayar |-> 20250915] }

\* the admin of init_db and the users of the tests' fixtures: a USER bound to
\* no pelanggan, one bound to each pelanggan, and a deactivated one
SeedUsers ==
    { [username |-> "admin", role |-> "ADMIN", pelanggan_id |-> None, is_active |-> TRUE],
      [username |-> "testuser", role |-> "USER", pelanggan_id |-> None, is_active |-> TRUE],
      [username |-> "linkeduser", role |-> "USER", pelanggan_id |-> 1, is_active |-> TRUE],
      [username |-> "linkeduser2", role |-> "USER", pelanggan_id |-> 2, is_active |-> TRUE],
      [username |-> "inactive", role |-> "USER", pelanggan_id |-> 1, is_active |-> FALSE] }

\* PRIMARY KEY(id) and UNIQUE(tahun, bulan, pelanggan_id) of tagihan
TagihanUnique(rows) ==
    \A r1 \in rows, r2 \in rows :
        \/ r1 = r2
        \/ /\ r1.id # r2.id
           /\ <<r1.tahun, r1.bulan, r1.pelanggan_id>> # <<r2.tahun, r2.bulan, r2.pelanggan_id>>

\* NOT NULL and FOREIGN KEY constraints of tagihan
TagihanReferences(rows, pelangganRows, paketRows) ==
    \A r \in rows :
        /\ r.pelanggan_id \in {p.id : p \in pelangganRows}
        /\ r.paket_id \in {pk.id : pk \in paketRows}
        /\ r.tahun # None /\ r.bulan # None

\* PRIMARY KEY(id) and UNIQUE(nama, kecepatan) of paket
PaketUnique(rows) ==
    \A r1 \in rows, r2 \in rows :
        \/ r1 = r2
        \/ /\ r1.id # r2.id
           /\ <<r1.nama, r1.kecepatan>> # <<r2.nama, r2.kecepatan>>

----------------------------------------------------------------------------
(* Authentication and role checks.                                         *)

\* no current user: the dependency raised before the handler ran
NoUser == [username |-> "", role |-> "", pelanggan_id |-> None, is_active |-> FALSE]

\* A bearer token as the dependency sees it: whether verify_token accepts it
\* as an access token, and the "sub" of its payload.
Tokens ==
    {[valid |-> TRUE, sub |-> u.username] : u \in SeedUsers}
        \cup {[valid |-> TRUE, sub |-> "ghost"], [valid |-> FALSE, sub |-> "admin"]}

\* get_current_user: 401 unless the token verifies and names a stored user
get_current_user(token) ==
    IF ~token.valid \/ ~\E u \in users : u.username = token.sub
    THEN [status |-> 401, user |-> NoUser]
    ELSE [status |-> 200, user |-> CHOOSE u \in users : u.username = token.sub]

\* get_current_active_user: 400 for a deactivated user
get_current_active_user(token) ==
    LET current == get_current_user(token)
    IN  IF current.status # 200 THEN current
        ELSE IF ~current.user.is_active THEN [status |-> 400, user |-> NoUser]
        ELSE current

\* the dependency with the role check removed
require_admin_any_role(token) == get_current_active_user(token)

\* require_admin: 403 unless the current user's role is ADMIN
require_admin(token) ==
    LET current == get_current_active_user(token)
    IN  IF current.status # 200 THEN current
        ELSE IF current.user.role # "ADMIN" THEN [status |-> 403, user |-> current.user]
        ELSE current

----------------------------------------------------------------------------
(* Storage: the rows and columns the paginators' queries range over.       *)

\* tagihan t JOIN pelanggan p ON t.pelanggan_id = p.id JOIN paket pk ON
\* t.paket_id = pk.id, with the columns of TagihanRepository.base_select
\* (and p.paket_id, which only predicates can name)
TagihanJoin ==
    { [id |-> x[1].id, tahun |-> x[1].tahun, bulan |-> x[1].bulan,
       pelanggan_id |-> x[1].pelanggan_id, nama_pelanggan |-> x[2].nama,
       paket_pelanggan |-> x[1].paket_id, nama_paket |-> x[3].nama,
       kecepatan |-> x[3].kecepatan, harga |-> x[3].harga,
       tanggal_bayar |-> x[1].tanggal_bayar, p_paket_id |-> x[2].paket_id]
      : x \in { y \in tagihan \X pelanggan \X paket :
                   y[1].pelanggan_id = y[2].id /\ y[1].paket_id = y[3].id } }

\* pelanggan p JOIN paket pk ON p.paket_id = pk.id (PelangganRepository.base_select)
PelangganJoin ==
    { [id |-> x[1].id, nama |-> x[1].nama, paket_id |-> x[1].paket_id,
       nama_paket |-> x[2].nama, harga |-> x[2].harga, kecepatan |-> x[2].kecepatan]
      : x \in { y \in pelanggan \X paket : y[1].paket_id = y[2].id } }

\* the rows a paginator's base_query and count_query select from
SourceRows(source) ==
    CASE source = "tagihan" -> TagihanJoin
      [] source = "pelanggan" -> PelangganJoin
      [] source = "paket" -> paket

\* the column references the FROM clause of each paginator can resolve
SourceColumns(source) ==
    CASE source = "tagihan" ->
            {"t.id", "t.tahun", "t.bulan", "t.pelanggan_id", "t.paket_id", "t.tanggal_bayar",
             "p.id", "p.nama", "p.paket_id", "pk.id", "pk.nama", "pk.kecepatan", "pk.harga"}
      [] source = "pelanggan" ->
            {"p.id", "p.nama", "p.paket_id", "pk.id", "pk.nama", "pk.kecepatan", "pk.harga"}
      [] source = "paket" ->
            {"paket.id", "paket.nama", "paket.kecepatan", "paket.harga"}

\* the columns whose values are text
TextColumns == {"p.nama", "pk.nama", "pk.kecepatan", "paket.nama", "paket.kecepatan"}

\* the value of a column reference in a row
ColumnValue(source, row, column) ==
    CASE source = "tagihan" ->
            (CASE column = "t.id" -> row.id
               [] column = "t.tahun" -> row.tahun
               [] column = "t.bulan" -> row.bulan
               [] column \in {"t.pelanggan_id", "p.id"} -> row.pelanggan_id
               [] column \in {"t.paket_id", "pk.id"} -> row.paket_pelanggan
               [] column = "t.tanggal_bayar" -> row.tanggal_bayar
               [] column = "p.nama" -> row.nama_pelanggan
               [] column = "p.paket_id" -> row.p_paket_id
               [] column = "pk.nama" -> row.nama_paket
               [] column = "pk.kecepatan" -> row.kecepatan
               [] column = "pk.harga" -> row.harga)
      [] source = "pelanggan" ->
            (CASE column = "p.id" -> row.id
               [] column = "p.nama" -> row.nama
               [] column \in {"p.paket_id", "pk.id"} -> row.paket_id
               [] column = "pk.nama" -> row.nama_paket
               [] column = "pk.kecepatan" -> row.kecepatan
               [] column = "pk.harga" -> row.harga)
      [] source = "paket" ->
            (CASE column = "paket.id" -> row.id
               [] column = "paket.nama" -> row.nama
               [] column = "paket.kecepatan" -> row.kecepatan
               [] column = "paket.harga" -> row.harga)

\* ILIKE folds case
Lower(c) == IF c \in 65..90 THEN c + 32 ELSE c

RECURSIVE Like(_, _)
\* text ILIKE pattern, where % (37) matches any run and _ (95) any character
Like(text, pattern) ==
    IF pattern = <<>> THEN text = <<>>
    ELSE IF Head(pattern) = 37
         THEN Like(text, Tail(pattern)) \/ (text # <<>> /\ Like(Tail(text), pattern))
         ELSE /\ text # <<>>
              /\ Head(pattern) = 95 \/ Lower(Head(text)) = Lower(Head(pattern))
              /\ Like(Tail(text), Tail(pattern))

\* one "field operator ?" clause with its bound parameter, evaluated on a row
\* (a comparison with NULL is not true)
ClauseHolds(source, row, clause) ==
    LET v == ColumnValue(source, row, clause.field)
    IN  IF clause.field \in TextColumns
        THEN CASE clause.operator = "ILIKE" -> Like(v, clause.param)
               [] clause.operator = "=" -> v = clause.param
               [] clause.operator = "!=" -> v # clause.param
        ELSE /\ v # None
             /\ CASE clause.operator = "IN" ->
                         \E k \in 1..Len(clause.param) : v = clause.param[k]
                  [] clause.operator = "NOT IN" ->
                         \A k \in 1..Len(clause.param) : v # clause.param[k]
                  [] clause.operator = "=" -> v = clause.param
                  [] clause.operator = "!=" -> v # clause.param
                  [] clause.operator = ">" -> v > clause.param
                  [] clause.operator = "<" -> v < clause.param
                  [] clause.operator = ">=" -> v >= clause.param
                  [] clause.operator = "<=" -> v <= clause.param

\* the rows of the source that satisfy every clause (the clauses are joined by AND)
Matching(source, where) ==
    { row \in SourceRows(source) :
        \A i \in 1..Len(where) : ClauseHolds(source, row, where[i]) }

\* a clause the binder rejects: a column the FROM clause does not have
Unresolved(source, where) ==
    \E i \in 1..Len(where) : where[i].field \notin SourceColumns(source)

RECURSIVE SeqLess(_, _)
\* text order
SeqLess(a, b) ==
    IF b = <<>> THEN FALSE
    ELSE IF a = <<>> THEN TRUE
    ELSE IF Head(a) # Head(b) THEN Head(a) < Head(b)
    ELSE SeqLess(Tail(a), Tail(b))

\* position of an id in a sequence of ids
Pos(ids, id) == CHOOSE i \in 1..Len(ids) : ids[i] = id

\* ORDER BY column direction: row x comes before row y.  NULLs come last in
\* both directions; rows with equal keys come in the order storage happens
\* to produce them, which "tie" (a sequence of the row ids) stands for.
Before(source, x, y, column, direction, tie) ==
    LET a == ColumnValue(source, x, column)
        b == ColumnValue(source, y, column)
        text == column \in TextColumns
    IN  IF a = b THEN Pos(tie, x.id) < Pos(tie, y.id)
        ELSE IF ~text /\ a = None THEN FALSE
        ELSE IF ~text /\ b = None THEN TRUE
        ELSE IF text
             THEN (IF direction = "ASC" THEN SeqLess(a, b) ELSE SeqLess(b, a))
             ELSE (IF direction = "ASC" THEN a < b ELSE b < a)

RECURSIVE OrderBy(_, _, _, _, _)
\* the rows in ORDER BY order
OrderBy(source, rows, column, direction, tie) ==
    IF rows = {} THEN <<>>
    ELSE LET first == CHOOSE x \in rows :
                         \A y \in rows \ {x} : Before(source, x, y, column, direction, tie)
         IN  <<first>> \o OrderBy(source, rows \ {first}, column, direction, tie)

RECURSIVE Perms(_)
\* every order in which storage may produce the rows with these ids
Perms(ids) ==
    IF ids = {} THEN {<<>>}
    ELSE UNION { { <<id>> \o rest : rest \in Perms(ids \ {id}) } : id \in ids }

\* LIMIT size OFFSET offset
LimitOffset(rows, size, offset) ==
    SubSeq(rows, offset + 1, Min(Len(rows), offset + size))

----------------------------------------------------------------------------
(* Row mapping: what the responses carry.                                  *)

\* date.strftime("%Y-%m-%d"): the year, month and day fields of the text
strftime(date) == <<date \div 10000, (date \div 100) % 100, date % 100>>

\* The noise SqidsManager.encode draws in the k-th call of one request.  A
\* request does not enumerate every draw of every call: it runs under one of
\* MaxNoise + 1 streams, stream 0 drawing the same noise in every call and
\* the others drawing noise that changes from call to call.
NoiseAt(stream, k) ==
    <<(stream * k) % (MaxNoise + 1), stream, (stream * (k + 1)) % (MaxNoise + 1)>>

NoiseStreams == 0..MaxNoise

\* SqidsManager.encode(number) as the k-th call of a request
encode_call(number, salt, stream, k) ==
    encode(number, salt, NoiseAt(stream, k)[1], NoiseAt(stream, k)[2], NoiseAt(stream, k)[3])

\* TagihanModelHelper.map_to_model raises: strftime of a NULL tanggal_bayar
TagihanMapFails(row) == row.tanggal_bayar = None

\* TagihanModelHelper.map_to_model, the j-th row of a response (three encode
\* calls per row: pelanggan id, paket id, tagihan id)
TagihanModelHelper_map_to_model(row, stream, j) ==
    [id |-> encode_call(row.id, None, stream, 3 * j),
     pelanggan |-> [id |-> encode_call(row.pelanggan_id, None, stream, 3 * j - 2),
                    nama |-> row.nama_pelanggan],
     paket |-> [id |-> encode_call(row.pelanggan_id, None, stream, 3 * j - 1),
                nama |-> row.nama_pelanggan,
                kecepatan |-> row.kecepatan,
                harga |-> row.harga],
     tahun |-> row.tahun,
     bulan |-> row.bulan,
     tanggal_bayar |-> strftime(row.tanggal_bayar)]

\* PaketModelHelper.map_to_model / map_from_tuple on a paket row
PaketModelHelper_map_to_model(row, stream, k) ==
    [id |-> encode_call(row.id, None, stream, k),
     nama |-> row.nama, harga |-> row.harga, kecepatan |-> row.kecepatan]

\* PelangganModelHelper.map_to_model, the j-th row of a response (the paket
\* id is encoded first, then the pelanggan id)
PelangganModelHelper_map_to_model(row, stream, j) ==
    [id |-> encode_call(row.id, None, stream, 2 * j),
     nama |-> row.nama,
     paket |-> PaketModelHelper_map_to_model(
                   [id |-> row.paket_id, nama |-> row.nama_paket,
                    harga |-> row.harga, kecepatan |-> row.kecepatan], stream, 2 * j - 1)]

\* the paginator's map_function applied to the j-th item
MapItem(source, row, stream, j) ==
    CASE source = "tagihan" -> TagihanModelHelper_map_to_model(row, stream, j)
      [] source = "pelanggan" -> PelangganModelHelper_map_to_model(row, stream, j)
      [] source = "paket" -> PaketModelHelper_map_to_model(row, stream, j)

MapFails(source, row) == source = "tagihan" /\ TagihanMapFails(row)

RECURSIVE MapItems(_, _, _, _)
\* [self.map_function(dict(item)) for item in items], items j..Len(rows)
MapItems(source, rows, stream, j) ==
    IF j > Len(rows) THEN <<>>
    ELSE <<MapItem(source, rows[j], stream, j)>> \o MapItems(source, rows, stream, j + 1)

----------------------------------------------------------------------------
(* PaginationHandler.get_page.                                             *)

\* Python's None where an Optional[str] filter value is expected
NoneText == <<None>>

\* FilterType(field, value, operator)
FilterType(field, value, operator) ==
    [field |-> field, value |-> value, operator |-> operator]

\* the operators whose value is a list
ListOperators == {"IN", "NOT IN"}

\* "if _filter.value:" in place of "is not None": a falsy value counts as absent
HasValue_truthy(filter) ==
    IF filter.field \in TextColumns \/ filter.operator \in ListOperators
    THEN filter.value # NoneText /\ filter.value # <<>>
    ELSE filter.value # None /\ filter.value # 0

\* _filter.value is not None
HasValue(filter) ==
    IF filter.field \in TextColumns \/ filter.operator \in ListOperators
    THEN filter.value # NoneText
    ELSE filter.value # None

\* the clause of a filter with every value bound as it is
Clause_unwrapped(filter) ==
    [field |-> filter.field, operator |-> filter.operator,
     text |-> <<filter.field, filter.operator, "?">>,
     param |-> filter.value]

\* the clause and the bound parameter of one filter: text is the rendered
\* "field operator ?", param the one element added to params
Clause(filter) ==
    [field |-> filter.field, operator |-> filter.operator,
     text |-> <<filter.field, filter.operator, "?">>,
     param |-> IF filter.operator = "ILIKE" THEN <<37>> \o filter.value \o <<37>>
               ELSE filter.value]

RECURSIVE WhereClauses_reversed(_)
\* the loop over filters.values() putting each clause before the earlier ones
WhereClauses_reversed(filters) ==
    IF filters = <<>> THEN <<>>
    ELSE WhereClauses_reversed(Tail(filters))
             \o (IF HasValue(Head(filters)) THEN <<Clause(Head(filters))>> ELSE <<>>)

RECURSIVE WhereClauses(_)
\* the loop over filters.values(): a filter without a value adds nothing
WhereClauses(filters) ==
    IF filters = <<>> THEN <<>>
    ELSE (IF HasValue(Head(filters)) THEN <<Clause(Head(filters))>> ELSE <<>>)
             \o WhereClauses(Tail(filters))

\* direction.upper()
Upper(direction) ==
    CASE direction = "asc" -> "ASC"
      [] direction = "desc" -> "DESC"
      [] OTHER -> direction

default_sort(source) ==
    CASE source = "tagihan" -> "t.tanggal_bayar"
      [] source = "pelanggan" -> "p.nama"
      [] source = "paket" -> "paket.nama"

default_direction(source) == IF source = "tagihan" THEN "DESC" ELSE "ASC"

\* the response body when a request fails
NoBody == [content |-> <<>>]

\* the page metadata with total_pages rounded down
PaginationResult_floor(page, size, total_elements, mapped_items) ==
    LET total_pages == IF size > 0 THEN total_elements \div size ELSE 1
    IN  [content |-> mapped_items,
         page |-> page,
         size |-> size,
         total_elements |-> total_elements,
         total_pages |-> total_pages,
         number_of_elements |-> Len(mapped_items),
         is_last |-> page >= total_pages,
         is_first |-> page <= 1,
         is_empty |-> Len(mapped_items) = 0]

\* the page metadata with total_pages never below 1
PaginationResult_at_least_one(page, size, total_elements, mapped_items) ==
    LET pages == IF size > 0 THEN (total_elements + size - 1) \div size ELSE 1
        total_pages == IF pages < 1 THEN 1 ELSE pages
    IN  [content |-> mapped_items,
         page |-> page,
         size |-> size,
         total_elements |-> total_elements,
         total_pages |-> total_pages,
         number_of_elements |-> Len(mapped_items),
         is_last |-> page >= total_pages,
         is_first |-> page <= 1,
         is_empty |-> Len(mapped_items) = 0]

\* the page metadata with is_first true on page 1 only
PaginationResult_first_is_one(page, size, total_elements, mapped_items) ==
    LET total_pages == IF size > 0 THEN (total_elements + size - 1) \div size ELSE 1
    IN  [content |-> mapped_items,
         page |-> page,
         size |-> size,
         total_elements |-> total_elements,
         total_pages |-> total_pages,
         number_of_elements |-> Len(mapped_items),
         is_last |-> page >= total_pages,
         is_first |-> page = 1,
         is_empty |-> Len(mapped_items) = 0]

\* PaginationResult(...) as get_page builds it
PaginationResult(page, size, total_elements, mapped_items) ==
    LET total_pages == IF size > 0 THEN (total_elements + size - 1) \div size ELSE 1
    IN  [content |-> mapped_items,
         page |-> page,
         size |-> size,
         total_elements |-> total_elements,
         total_pages |-> total_pages,
         number_of_elements |-> Len(mapped_items),
         is_last |-> page >= total_pages,
         is_first |-> page <= 1,
         is_empty |-> Len(mapped_items) = 0]

\* the end of get_page with the total taken from the rows of the page
map_and_count_page(source, queries, items, total, page, size, stream) ==
    IF \E j \in 1..Len(items) : MapFails(source, items[j])
    THEN [status |-> 500, queries |-> queries, body |-> NoBody,
          raised |-> "AttributeError"]
    ELSE [status |-> 200, queries |-> queries, raised |-> "",
          body |-> PaginationResult(page, size, Len(items),
                                    MapItems(source, items, stream, 1))]

\* the end of get_page with the rows that cannot be mapped left out
map_what_maps(source, queries, items, total, page, size, stream) ==
    LET Maps(item) == ~MapFails(source, item)
    IN  [status |-> 200, queries |-> queries, raised |-> "",
         body |-> PaginationResult(page, size, total,
                                   MapItems(source, SelectSeq(items, Maps), stream, 1))]

\* the end of get_page: the items the query returned are mapped and the
\* page is built; a row the map_function fails on ends the request with the
\* exception of the map_function (500 when nothing catches it)
map_and_build(source, queries, items, total, page, size, stream) ==
    IF \E j \in 1..Len(items) : MapFails(source, items[j])
    THEN [status |-> 500, queries |-> queries, body |-> NoBody,
          raised |-> "AttributeError"]
    ELSE [status |-> 200, queries |-> queries, raised |-> "",
          body |-> PaginationResult(page, size, total,
                                    MapItems(source, items, stream, 1))]

\* the offset computed from the page whatever the page is
Offset_unguarded(page, size) == (page - 1) * size

\* offset = (page - 1) * size if page > 0 else 0
Offset(page, size) == IF page > 0 THEN (page - 1) * size ELSE 0

\* get_page of the paginator of a repository.  page and size are integers,
\* sort and direction are "" when the request leaves them out, tie is the
\* order storage produces equal-keyed rows in, stream the noise of encode.
\* The result is the status the request ends with when nothing catches an
\* exception of get_page (500), the class of that exception ("" when none
\* is raised), the queries executed and the page.
get_page(source, page, size, sort, direction, filters, tie, stream) ==
    LET offset == Offset(page, size)
        where == WhereClauses(filters)
        sort_field == IF sort # "" THEN sort ELSE default_sort(source)
        sort_direction == IF direction # "" THEN Upper(direction)
                          ELSE default_direction(source)
        count_query == [kind |-> "count", source |-> source, where |-> where]
        query == [kind |-> "data", source |-> source, where |-> where,
                  order |-> <<sort_field, sort_direction>>, limit |-> size,
                  offset |-> offset]
    IN  IF Unresolved(source, where)
        THEN [status |-> 500, queries |-> <<count_query>>, body |-> NoBody,
              raised |-> "duckdb.Error"]
        ELSE IF \/ sort_field \notin SourceColumns(source)
                \/ sort_direction \notin {"ASC", "DESC"}
                \/ size < 0 \/ offset < 0
        THEN [status |-> 500, queries |-> <<count_query, query>>, body |-> NoBody,
              raised |-> "duckdb.Error"]
        ELSE map_and_build(
                 source, <<count_query, query>>,
                 LimitOffset(OrderBy(source, Matching(source, where),
                                     sort_field, sort_direction, tie),
                             size, offset),
                 Cardinality(Matching(source, where)), page, size, stream)

----------------------------------------------------------------------------
(* TagihanRepository.                                                      *)

\* get_page: the filters of an ADMIN's list request
TagihanRepository_get_page(req, tie, stream) ==
    get_page("tagihan", req.page, req.size, req.sort, req.direction,
             << FilterType("t.tahun", req.tahun, "="),
                FilterType("t.bulan", req.bulan, "="),
                FilterType("p.pelanggan_id", req.pelanggan_id, "="),
                FilterType("p.paket_id", req.paket_id, "=") >>,
             tie, stream)

\* the USER's list with the client's pelanggan_id in place of the forced one
get_page_by_client_pelanggan(req, pelanggan_id, tie, stream) ==
    get_page("tagihan", req.page, req.size, req.sort, req.direction,
             << FilterType("t.tahun", req.tahun, "="),
                FilterType("t.bulan", req.bulan, "="),
                FilterType("t.pelanggan_id", req.pelanggan_id, "="),
                FilterType("p.paket_id", req.paket_id, "=") >>,
             tie, stream)

\* the USER's list with the forced filter passed first
get_page_by_pelanggan_first(req, pelanggan_id, tie, stream) ==
    get_page("tagihan", req.page, req.size, req.sort, req.direction,
             << FilterType("t.pelanggan_id", pelanggan_id, "="),
                FilterType("t.tahun", req.tahun, "="),
                FilterType("t.bulan", req.bulan, "="),
                FilterType("p.paket_id", req.paket_id, "=") >>,
             tie, stream)

\* get_page_by_pelanggan: the filters of a USER's list request; the
\* pelanggan_id of the request is not read
TagihanRepository_get_page_by_pelanggan(req, pelanggan_id, tie, stream) ==
    get_page("tagihan", req.page, req.size, req.sort, req.direction,
             << FilterType("t.tahun", req.tahun, "="),
                FilterType("t.bulan", req.bulan, "="),
                FilterType("t.pelanggan_id", pelanggan_id, "="),
                FilterType("p.paket_id", req.paket_id, "=") >>,
             tie, stream)

\* the tagihan rows with the given ids, in that order
RECURSIVE RowsInOrder(_)
RowsInOrder(ids) ==
    IF ids = <<>> THEN <<>>
    ELSE <<CHOOSE t \in tagihan : t.id = Head(ids)>> \o RowsInOrder(Tail(ids))

RECURSIVE SummaryItems(_, _, _, _)
\* the result list of fetch_summary, items j..Len(rows): three encode calls
\* per item, all with the salt of the batch
SummaryItems(rows, sqids_salt, stream, j) ==
    IF j > Len(rows) THEN <<>>
    ELSE << [id |-> encode_call(rows[j].id, sqids_salt, stream, 3 * j - 2),
             pelanggan_id |-> encode_call(rows[j].pelanggan_id, sqids_salt, stream, 3 * j - 1),
             paket_id |-> encode_call(rows[j].paket_id, sqids_salt, stream, 3 * j),
             tahun |-> rows[j].tahun,
             bulan |-> rows[j].bulan,
             tanggal_bayar |-> strftime(rows[j].tanggal_bayar)] >>
         \o SummaryItems(rows, sqids_salt, stream, j + 1)

\* the try block shared by fetch_summary and fetch_summary_by_pelanggan: the
\* query, the salt of the batch, the result list; any exception (strftime of
\* a NULL tanggal_bayar) becomes a 400
Summarise(where, selected, tie, sqids_salt, stream) ==
    LET query == [kind |-> "summary", source |-> "tagihan", where |-> where]
        InSelected(id) == \E t \in selected : t.id = id
        rows == RowsInOrder(SelectSeq(tie, InSelected))
    IN  IF \E t \in selected : t.tanggal_bayar = None
        THEN [status |-> 400, queries |-> <<query>>, body |-> NoBody]
        ELSE [status |-> 200, queries |-> <<query>>,
              body |-> [content |-> SummaryItems(rows, sqids_salt, stream, 1)]]

\* the rows SELECT * FROM tagihan WHERE tahun = ? selects
SummaryRows(tahun) == {t \in tagihan : t.tahun = tahun}

\* the rows SELECT * FROM tagihan WHERE tahun = ? AND pelanggan_id = ? selects
SummaryRowsByPelanggan(tahun, pelanggan_id) ==
    {t \in tagihan : t.tahun = tahun /\ t.pelanggan_id = pelanggan_id}

\* fetch_summary: tie is the order in which storage returns the rows of the year
TagihanRepository_fetch_summary(tahun, tie, sqids_salt, stream) ==
    Summarise(<<[field |-> "tahun", operator |-> "=", param |-> tahun]>>,
              SummaryRows(tahun), tie, sqids_salt, stream)

\* fetch_summary_by_pelanggan
TagihanRepository_fetch_summary_by_pelanggan(tahun, pelanggan_id, tie, sqids_salt, stream) ==
    Summarise(<<[field |-> "tahun", operator |-> "=", param |-> tahun],
                [field |-> "pelanggan_id", operator |-> "=", param |-> pelanggan_id]>>,
              SummaryRowsByPelanggan(tahun, pelanggan_id), tie, sqids_salt, stream)

\* fetch_by_id: cursor.fetchone() is None when no row has the id (or the id
\* is None), zip(columns, None) raises, and the except clause answers 400;
\* so does a row map_to_model fails on
TagihanRepository_fetch_by_id(id, stream) ==
    LET query == [kind |-> "fetch", source |-> "tagihan",
                  where |-> <<[field |-> "t.id", operator |-> "=", param |-> id]>>]
        found == {row \in TagihanJoin : id # None /\ row.id = id}
    IN  IF found = {} \/ \E row \in found : TagihanMapFails(row)
        THEN [status |-> 400, queries |-> <<query>>, body |-> NoBody]
        ELSE [status |-> 200, queries |-> <<query>>,
              body |-> [content |-> <<TagihanModelHelper_map_to_model(
                                        CHOOSE row \in found : TRUE, stream, 1)>>]]

\* save: building params reads req.periode, which TagihanPostRequest does not
\* have; the AttributeError is raised before the try block and before any
\* statement is executed, and nothing catches it
TagihanRepository_save(req) ==
    [status |-> 500, queries |-> <<>>, body |-> NoBody, tagihan |-> tagihan]

\* the row UPDATE tagihan SET ... WHERE id = ? writes
UpdatedTagihan(id, req) ==
    [id |-> id,
     pelanggan_id |-> decode(req.pelanggan_id).value,
     paket_id |-> decode(req.paket_id).value,
     tahun |-> req.tahun,
     bulan |-> req.bulan,
     tanggal_bayar |-> req.tanggal_bayar]

\* update: the UPDATE is executed without looking the row up first; when no
\* row has the id it changes nothing and succeeds; when the new row breaks a
\* constraint the statement raises and the except clause answers 400
TagihanRepository_update(id, req) ==
    LET query == [kind |-> "update", source |-> "tagihan",
                  where |-> <<[field |-> "id", operator |-> "=", param |-> id]>>]
        target == {t \in tagihan : id # None /\ t.id = id}
        written == (tagihan \ target) \cup {UpdatedTagihan(id, req)}
    IN  IF target = {}
        THEN [status |-> 200, queries |-> <<query>>, body |-> NoBody, tagihan |-> tagihan]
        ELSE IF /\ UpdatedTagihan(id, req).pelanggan_id # None
                /\ UpdatedTagihan(id, req).paket_id # None
                /\ TagihanReferences(written, pelanggan, paket)
                /\ TagihanUnique(written)
        THEN [status |-> 200, queries |-> <<query>>, body |-> NoBody, tagihan |-> written]
        ELSE [status |-> 400, queries |-> <<query>>, body |-> NoBody, tagihan |-> tagihan]

\* delete: 404 when SELECT id FROM tagihan WHERE id=? finds nothing
TagihanRepository_delete(id) ==
    LET exist == [kind |-> "fetch", source |-> "tagihan",
                  where |-> <<[field |-> "id", operator |-> "=", param |-> id]>>]
        query == [kind |-> "delete", source |-> "tagihan",
                  where |-> <<[field |-> "id", operator |-> "=", param |-> id]>>]
        target == {t \in tagihan : id # None /\ t.id = id}
    IN  IF target = {}
        THEN [status |-> 404, queries |-> <<exist>>, body |-> NoBody, tagihan |-> tagihan]
        ELSE [status |-> 200, queries |-> <<exist, query>>, body |-> NoBody,
              tagihan |-> tagihan \ target]

----------------------------------------------------------------------------
(* The handlers of app/routers/tagihan.py.  Each gives the outcome of one  *)
(* request: the current user the dependency supplied (NoUser when it       *)
(* raised), the status, the statements executed, the body and, for a       *)
(* handler that writes, the table afterwards.                              *)

\* a request the dependency refused: the handler did not run
Refused(current) ==
    [caller |-> current.user, status |-> current.status, queries |-> <<>>, body |-> NoBody]

\* the outcome of a repository call as the outcome of the request
By(user, outcome) == [caller |-> user] @@ outcome

\* the list handler with the USER branch taken for every role
get_tagihan_scoping_everyone(token, request, tie, stream) ==
    LET current == get_current_active_user(token)
    IN  IF current.status # 200 THEN Refused(current)
        ELSE IF ~Truthy(current.user.pelanggan_id)
        THEN [caller |-> current.user, status |-> 403, queries |-> <<>>, body |-> NoBody]
        ELSE By(current.user, TagihanRepository_get_page_by_pelanggan(
                                   request, current.user.pelanggan_id, tie, stream))

\* the list handler without the check of the USER's pelanggan_id
get_tagihan_unchecked(token, request, tie, stream) ==
    LET current == get_current_active_user(token)
    IN  IF current.status # 200 THEN Refused(current)
        ELSE IF current.user.role = "USER"
        THEN By(current.user, TagihanRepository_get_page_by_pelanggan(
                                   request, current.user.pelanggan_id, tie, stream))
        ELSE By(current.user, TagihanRepository_get_page(request, tie, stream))

\* GET /tagihan
get_tagihan(token, request, tie, stream) ==
    LET current == get_current_active_user(token)
    IN  IF current.status # 200 THEN Refused(current)
        ELSE IF current.user.role = "USER"
        THEN IF ~Truthy(current.user.pelanggan_id)
             THEN [caller |-> current.user, status |-> 403, queries |-> <<>>,
                   body |-> NoBody]
             ELSE By(current.user, TagihanRepository_get_page_by_pelanggan(
                                        request, current.user.pelanggan_id, tie, stream))
        ELSE By(current.user, TagihanRepository_get_page(request, tie, stream))

\* GET /tagihan/summary/{tahun}
get_summary(token, tahun, tie, sqids_salt, stream) ==
    LET current == get_current_active_user(token)
    IN  IF current.status # 200 THEN Refused(current)
        ELSE IF current.user.role = "USER"
        THEN IF ~Truthy(current.user.pelanggan_id)
             THEN [caller |-> current.user, status |-> 403, queries |-> <<>>,
                   body |-> NoBody]
             ELSE By(current.user, TagihanRepository_fetch_summary_by_pelanggan(
                                        tahun, current.user.pelanggan_id, tie, sqids_salt, stream))
        ELSE By(current.user, TagihanRepository_fetch_summary(tahun, tie, sqids_salt, stream))

\* GET /tagihan/{id}
get_tagihan_by_id(token, id, stream) ==
    LET current == require_admin(token)
    IN  IF current.status # 200 THEN Refused(current)
        ELSE By(current.user, TagihanRepository_fetch_by_id(decode(id).value, stream))

\* POST /tagihan
input_tagihan(token, req) ==
    LET current == require_admin(token)
    IN  IF current.status # 200 THEN Refused(current) @@ [tagihan |-> tagihan]
        ELSE By(current.user, TagihanRepository_save(req))

\* PUT /tagihan/{id}
edit_tagihan(token, id, req) ==
    LET current == require_admin(token)
    IN  IF current.status # 200 THEN Refused(current) @@ [tagihan |-> tagihan]
        ELSE By(current.user, TagihanRepository_update(decode(id).value, req))

\* DELETE /tagihan/{id}
delete_tagihan(token, id) ==
    LET current == require_admin(token)
    IN  IF current.status # 200 THEN Refused(current) @@ [tagihan |-> tagihan]
        ELSE By(current.user, TagihanRepository_delete(decode(id).value))

----------------------------------------------------------------------------
(* PelangganRepository and the handlers of app/routers/pelanggan.py.       *)

\* get_page
PelangganRepository_get_page(req, tie, stream) ==
    get_page("pelanggan", req.page, req.size, req.sort, req.direction,
             << FilterType("p.nama", req.nama, "ILIKE"),
                FilterType("p.paket_id", req.paket_id, "=") >>,
             tie, stream)

\* get_by_id: 404 when no row has the id.  A row that is found goes through
\* map_from_tuple, which hands paket_helper.map_from_tuple the columns
\* (paket_id, updated_at, nama_paket, harga, kecepatan, paket_created_at):
\* the timestamp lands in nama and the name in harga, PaketResponse rejects
\* them, and the except clause answers 500.
PelangganRepository_get_by_id(id) ==
    LET query == [kind |-> "fetch", source |-> "pelanggan",
                  where |-> <<[field |-> "p.id", operator |-> "=", param |-> id]>>]
    IN  IF {row \in PelangganJoin : row.id = id} = {}
        THEN [status |-> 404, queries |-> <<query>>, body |-> NoBody]
        ELSE [status |-> 500, queries |-> <<query>>, body |-> NoBody]

\* create: the INSERT names (nama, alamat, paket_id) and leaves out no_hp,
\* which is NOT NULL; the statement raises and the except clause answers 500
PelangganRepository_create(req) ==
    [status |-> 500,
     queries |-> <<[kind |-> "insert", source |-> "pelanggan", where |-> <<>>]>>,
     body |-> NoBody]

\* update and delete: get_by_id runs inside the try block, and the except
\* clause turns whatever it raises, the 404 included, into a 500; get_by_id
\* never returns (see above), so no UPDATE or DELETE is executed
PelangganRepository_update(id, req) ==
    [PelangganRepository_get_by_id(id) EXCEPT !.status = 500]

PelangganRepository_delete(id) ==
    [PelangganRepository_get_by_id(id) EXCEPT !.status = 500]

\* GET /pelanggan
pelanggan_get_all(token, request, tie, stream) ==
    LET current == require_admin(token)
    IN  IF current.status # 200 THEN Refused(current)
        ELSE By(current.user, PelangganRepository_get_page(request, tie, stream))

\* a handler's "if not sqids.decode(id): raise HTTPException(404)"
NotDecoded(user) ==
    [caller |-> user, status |-> 404, queries |-> <<>>, body |-> NoBody]

\* GET /pelanggan/{id}
pelanggan_get_by_id(token, id) ==
    LET current == require_admin(token)
    IN  IF current.status # 200 THEN Refused(current)
        ELSE IF ~Truthy(decode(id).value) THEN NotDecoded(current.user)
        ELSE By(current.user, PelangganRepository_get_by_id(decode(id).value))

\* POST /pelanggan
pelanggan_create(token, req) ==
    LET current == require_admin(token)
    IN  IF current.status # 200 THEN Refused(current)
        ELSE By(current.user, PelangganRepository_create(req))

\* PUT /pelanggan/{id}
pelanggan_update(token, id, req) ==
    LET current == require_admin(token)
    IN  IF current.status # 200 THEN Refused(current)
        ELSE IF ~Truthy(decode(id).value) THEN NotDecoded(current.user)
        ELSE By(current.user, PelangganRepository_update(decode(id).value, req))

\* DELETE /pelanggan/{id}
pelanggan_delete(token, id) ==
    LET current == require_admin(token)
    IN  IF current.status # 200 THEN Refused(current)
        ELSE IF ~Truthy(decode(id).value) THEN NotDecoded(current.user)
        ELSE By(current.user, PelangganRepository_delete(decode(id).value))

----------------------------------------------------------------------------
(* PaketRepository and the handlers of app/routers/paket.py.               *)

\* get_page
PaketRepository_get_page(req, tie, stream) ==
    get_page("paket", req.page, req.size, req.sort, req.direction,
             << FilterType("paket.nama", req.nama, "ILIKE"),
                FilterType("paket.kecepatan", req.kecepatan, "ILIKE") >>,
             tie, stream)

\* create: the row takes the next value of seq_paket.  A row that repeats
\* (nama, kecepatan) is rejected and the except clause answers 500; whether
\* the rejected INSERT has used up a sequence value is storage's choice
\* ("used").
PaketRepository_create(req, used) ==
    LET query == [kind |-> "insert", source |-> "paket", where |-> <<>>]
        row == [id |-> seq_paket, nama |-> req.nama, harga |-> req.harga,
                kecepatan |-> req.kecepatan]
    IN  IF PaketUnique(paket \cup {row})
        THEN [status |-> 201, queries |-> <<query>>, body |-> NoBody,
              paket |-> paket \cup {row}, seq_paket |-> seq_paket + 1]
        ELSE [status |-> 500, queries |-> <<query>>, body |-> NoBody,
              paket |-> paket, seq_paket |-> IF used THEN seq_paket + 1 ELSE seq_paket]

\* get_by_id: 404 when no row has the id
PaketRepository_get_by_id(id, stream) ==
    LET query == [kind |-> "fetch", source |-> "paket",
                  where |-> <<[field |-> "id", operator |-> "=", param |-> id]>>]
        found == {row \in paket : row.id = id}
    IN  IF found = {}
        THEN [status |-> 404, queries |-> <<query>>, body |-> NoBody]
        ELSE [status |-> 200, queries |-> <<query>>,
              body |-> [content |-> <<PaketModelHelper_map_to_model(
                                        CHOOSE row \in found : TRUE, stream, 1)>>]]

\* a paket row some pelanggan or tagihan row references
Referenced(id) ==
    \/ \E p \in pelanggan : p.paket_id = id
    \/ \E t \in tagihan : t.paket_id = id

\* update: 404 from get_by_id is passed on; a row that repeats (nama,
\* kecepatan) is rejected (500).  Storage rewrites an UPDATE of indexed
\* columns as delete and insert and, depending on its version, rejects the
\* delete of a referenced row ("eager").
update_statement(exist, id, req, eager) ==
    LET query == [kind |-> "update", source |-> "paket",
                  where |-> <<[field |-> "id", operator |-> "=", param |-> id]>>]
        written == {row \in paket : row.id # id}
                       \cup {[id |-> id, nama |-> req.nama, harga |-> req.harga,
                              kecepatan |-> req.kecepatan]}
    IN  IF exist.status # 200
        THEN [status |-> exist.status, queries |-> exist.queries, body |-> NoBody,
              paket |-> paket]
        ELSE IF PaketUnique(written) /\ ~(eager /\ Referenced(id))
        THEN [status |-> 200, queries |-> exist.queries \o <<query>>, body |-> NoBody,
              paket |-> written]
        ELSE [status |-> 500, queries |-> exist.queries \o <<query>>, body |-> NoBody,
              paket |-> paket]

PaketRepository_update(id, req, eager) ==
    update_statement(PaketRepository_get_by_id(id, 0), id, req, eager)

\* delete: 404 from get_by_id is passed on; a referenced row cannot be
\* deleted (500)
delete_statement(exist, id) ==
    LET query == [kind |-> "delete", source |-> "paket",
                  where |-> <<[field |-> "id", operator |-> "=", param |-> id]>>]
    IN  IF exist.status # 200
        THEN [status |-> exist.status, queries |-> exist.queries, body |-> NoBody,
              paket |-> paket]
        ELSE IF Referenced(id)
        THEN [status |-> 500, queries |-> exist.queries \o <<query>>, body |-> NoBody,
              paket |-> paket]
        ELSE [status |-> 200, queries |-> exist.queries \o <<query>>, body |-> NoBody,
              paket |-> {row \in paket : row.id # id}]

PaketRepository_delete(id) == delete_statement(PaketRepository_get_by_id(id, 0), id)

\* GET /paket
paket_get_all(token, req, tie, stream) ==
    LET current == require_admin(token)
    IN  IF current.status # 200 THEN Refused(current)
        ELSE By(current.user, PaketRepository_get_page(req, tie, stream))

\* POST /paket
paket_create(token, req, used) ==
    LET current == require_admin(token)
    IN  IF current.status # 200
        THEN Refused(current) @@ [paket |-> paket, seq_paket |-> seq_paket]
        ELSE By(current.user, PaketRepository_create(req, used))

\* GET /paket/{id}
paket_get_by_id(token, id, stream) ==
    LET current == require_admin(token)
    IN  IF current.status # 200 THEN Refused(current)
        ELSE IF ~Truthy(decode(id).value) THEN NotDecoded(current.user)
        ELSE By(current.user, PaketRepository_get_by_id(decode(id).value, stream))

\* PUT /paket/{id}
paket_update(token, id, req, eager) ==
    LET current == require_admin(token)
    IN  IF current.status # 200 THEN Refused(current) @@ [paket |-> paket]
        ELSE IF ~Truthy(decode(id).value) THEN NotDecoded(current.user) @@ [paket |-> paket]
        ELSE By(current.user, PaketRepository_update(decode(id).value, req, eager))

\* DELETE /paket/{id}
paket_delete(token, id) ==
    LET current == require_admin(token)
    IN  IF current.status # 200 THEN Refused(current) @@ [paket |-> paket]
        ELSE IF ~Truthy(decode(id).value) THEN NotDecoded(current.user) @@ [paket |-> paket]
        ELSE By(current.user, PaketRepository_delete(decode(id).value))

----------------------------------------------------------------------------
(* The codec on its own: encode called once or twice for one number, and   *)
(* decode applied to what encode returned (SpecCodec) or to any string a   *)
(* client may send (SpecDecode).                                           *)

NoCall == [input |-> <<>>, of |-> 0, raised |-> FALSE, value |-> None, made |-> FALSE]

Noise == 0..MaxNoise
Salts == {None} \cup (0..MaxSalt)

\* the characters a client may send
Chars == {ConfiguredAlphabet[i] : i \in 1..Len(ConfiguredAlphabet)} \cup {ForeignChar}

RECURSIVE Strings(_)
\* all strings of at most n characters
Strings(n) ==
    IF n = 0 THEN {<<>>}
    ELSE Strings(n - 1) \cup {Append(str, c) : str \in Strings(n - 1), c \in Chars}

ClientStrings == Strings(MaxStrLen)

InitCodec ==
    /\ encLog = <<>>
    /\ decoded = NoCall
    /\ tagihan = {}
    /\ pelanggan = SeedPelanggan
    /\ paket = SeedPaket
    /\ users = SeedUsers
    /\ seq_paket = Cardinality(SeedPaket) + 1
    /\ writes = 0
    /\ resp = [op |-> "none"]
    /\ db = DuckDBConnectionPool
    /\ auth = NoAuth

\* A first call of encode.
Encode(number, salt, r1, r2, ts) ==
    /\ encLog = <<>>
    /\ encLog' = <<[number |-> number, salt |-> salt, noise |-> <<r1, r2, ts>>,
                    out |-> encode(number, salt, r1, r2, ts)]>>
    /\ UNCHANGED <<decoded, apiVars, db, auth>>

\* A second, independent call of encode for the same number.
EncodeAgain(salt, r1, r2, ts) ==
    /\ Len(encLog) = 1
    /\ encLog' = Append(encLog,
                   [number |-> encLog[1].number, salt |-> salt, noise |-> <<r1, r2, ts>>,
                    out |-> encode(encLog[1].number, salt, r1, r2, ts)])
    /\ UNCHANGED <<decoded, apiVars, db, auth>>

\* decode applied to the string the i-th encode returned.
DecodeOutput(i) ==
    /\ i \in 1..Len(encLog)
    /\ decoded' = [input |-> encLog[i].out, of |-> i, made |-> TRUE,
                   raised |-> decode(encLog[i].out).raised,
                   value |-> decode(encLog[i].out).value]
    /\ UNCHANGED <<encLog, apiVars, db, auth>>

\* decode applied to a string a client sent (one call: decode keeps no state).
DecodeInput(str) ==
    /\ ~decoded.made
    /\ decoded' = [input |-> str, of |-> 0, made |-> TRUE,
                   raised |-> decode(str).raised,
                   value |-> decode(str).value]
    /\ UNCHANGED <<encLog, apiVars, db, auth>>

NextCodec ==
    \/ \E number \in 0..MaxId, salt \in Salts, r1 \in Noise, r2 \in Noise, ts \in Noise :
          Encode(number, salt, r1, r2, ts)
    \/ \E salt \in Salts, r1 \in Noise, r2 \in Noise, ts \in Noise :
          EncodeAgain(salt, r1, r2, ts)
    \/ \E i \in 1..2 : DecodeOutput(i)

SpecCodec == InitCodec /\ [][NextCodec]_vars

NextDecode == \E str \in ClientStrings : DecodeInput(str)

SpecDecode == InitCodec /\ [][NextDecode]_vars

----------------------------------------------------------------------------
(* The HTTP API as a state machine: one request at a time is handled       *)
(* against the tables, its response is recorded in resp, and the response  *)
(* is sent (Reply) before the next request is taken; everything a request  *)
(* built is discarded then.                                                *)

\* no request is being answered
NoResp == [op |-> "none"]

\* the opaque ids a client puts in a path or a body: the encoding of 0, of
\* the ids of a first and of a last row, a string with a
\* character outside the alphabet and a string too short to hold a number
OpaqueIds ==
    {encode(n, None, 0, 0, 0) : n \in {0, 1, Cardinality(CandidateTagihan)}}
        \cup {<<ForeignChar, 97, 98, 99>>, <<100>>}

\* the years a request may name
Years == {2024, 2025}

\* GET /tagihan: page 1 of size 2 or page 2 of size 1, default order
TagihanRequests ==
    { [tahun |-> 2025, bulan |-> bulan, pelanggan_id |-> pelanggan_id,
       paket_id |-> paket_id, page |-> paging[1], size |-> paging[2],
       sort |-> "", direction |-> ""]
      : bulan \in {9, 10}, pelanggan_id \in {None, 1}, paket_id \in {None, 1},
        paging \in {<<1, 2>>, <<2, 1>>} }

\* the body of POST and PUT /tagihan: pelanggan 2 or an id that does not
\* decode, paket 1 or the id of no paket
TagihanPostRequests ==
    [pelanggan_id : {encode(2, None, 0, 0, 0), <<100>>},
     paket_id : {encode(1, None, 0, 0, 0), encode(0, None, 0, 0, 0)},
     tahun : {2025}, bulan : {9}, tanggal_bayar : {20250920}]

PelangganRequests ==
    [nama : {NoneText, <<78>>, <<110, 49>>}, paket_id : {None, 1},
     page : {1}, size : {10}, sort : {""}, direction : {""}]

PelangganPostRequests ==
    [nama : {<<110, 51>>}, paket_id : {1}]

PaketRequests ==
    [nama : {NoneText, <<112>>}, kecepatan : {NoneText},
     page : {1}, size : {1}, sort : {"", "nope"}, direction : {"", "sideways"}]

\* the body of POST and PUT /paket: ("P1", "5M") as init_db has it, or ("P3", "5M")
PaketPostRequests ==
    [nama : {<<80, 49>>, <<80, 51>>}, harga : {75}, kecepatan : {<<53, 77>>}]

\* the response to a request
Answer(op, token, request, outcome) ==
    resp' = [op |-> op, request |-> request, caller |-> outcome.caller,
             status |-> outcome.status, queries |-> outcome.queries, body |-> outcome.body]

\* a request that changes a table or a sequence needs room in the budget
Budget(changed) ==
    /\ changed => writes < MaxWrites
    /\ writes' = IF changed THEN writes + 1 ELSE writes

codecVars == <<encLog, decoded>>

\* what a handler of the tagihan router leaves behind: the response and the
\* table as the repository committed it
CommitTagihan(op, token, request, outcome) ==
    /\ Answer(op, token, request, outcome)
    /\ tagihan' = outcome.tagihan
    /\ Budget(tagihan' # tagihan)
    /\ UNCHANGED <<pelanggan, paket, users, seq_paket, codecVars, db, auth>>

\* what a handler of the paket router leaves behind: the response, the table
\* and the sequence as the repository committed them
CommitPaket(op, token, request, outcome) ==
    /\ Answer(op, token, request, outcome)
    /\ paket' = outcome.paket
    /\ seq_paket' = outcome.seq_paket
    /\ Budget(paket' # paket \/ seq_paket' # seq_paket)
    /\ UNCHANGED <<tagihan, pelanggan, users, codecVars, db, auth>>

InitApi ==
    /\ tagihan \in {rows \in SUBSET CandidateTagihan : TagihanUnique(rows)}
    /\ pelanggan = SeedPelanggan
    /\ paket = SeedPaket
    /\ users = SeedUsers
    /\ seq_paket = Cardinality(SeedPaket) + 1
    /\ writes = 0
    /\ resp = NoResp
    /\ encLog = <<>>
    /\ decoded = NoCall
    /\ db = DuckDBConnectionPool
    /\ auth = NoAuth

GetTagihan(token, request, stream) ==
    /\ resp = NoResp
    /\ \E tie \in Perms({t.id : t \in {r \in tagihan : r.tahun = request.tahun
                                                        /\ r.bulan = request.bulan}}) :
          Answer("get_tagihan", token, request, get_tagihan(token, request, tie, stream))
    /\ UNCHANGED <<tagihan, pelanggan, paket, users, seq_paket, writes, codecVars, db, auth>>

GetSummary(token, tahun, sqids_salt, stream) ==
    /\ resp = NoResp
    /\ \E tie \in Perms({t.id : t \in SummaryRows(tahun)}) :
          Answer("get_summary", token, [tahun |-> tahun],
                 get_summary(token, tahun, tie, sqids_salt, stream))
    /\ UNCHANGED <<tagihan, pelanggan, paket, users, seq_paket, writes, codecVars, db, auth>>

GetTagihanById(token, id, stream) ==
    /\ resp = NoResp
    /\ Answer("get_tagihan_by_id", token, [id |-> id], get_tagihan_by_id(token, id, stream))
    /\ UNCHANGED <<tagihan, pelanggan, paket, users, seq_paket, writes, codecVars, db, auth>>

InputTagihan(token, req) ==
    /\ resp = NoResp
    /\ CommitTagihan("input_tagihan", token, [req |-> req], input_tagihan(token, req))

EditTagihan(token, id, req) ==
    /\ resp = NoResp
    /\ CommitTagihan("edit_tagihan", token, [id |-> id, req |-> req], edit_tagihan(token, id, req))

DeleteTagihan(token, id) ==
    /\ resp = NoResp
    /\ CommitTagihan("delete_tagihan", token, [id |-> id], delete_tagihan(token, id))

PelangganGetAll(token, request, stream) ==
    /\ resp = NoResp
    /\ \E tie \in Perms({p.id : p \in pelanggan}) :
          Answer("pelanggan_get_all", token, request,
                 pelanggan_get_all(token, request, tie, stream))
    /\ UNCHANGED <<tagihan, pelanggan, paket, users, seq_paket, writes, codecVars, db, auth>>

PelangganGetById(token, id) ==
    /\ resp = NoResp
    /\ Answer("pelanggan_get_by_id", token, [id |-> id], pelanggan_get_by_id(token, id))
    /\ UNCHANGED <<tagihan, pelanggan, paket, users, seq_paket, writes, codecVars, db, auth>>

PelangganCreate(token, req) ==
    /\ resp = NoResp
    /\ Answer("pelanggan_create", token, [req |-> req], pelanggan_create(token, req))
    /\ UNCHANGED <<tagihan, pelanggan, paket, users, seq_paket, writes, codecVars, db, auth>>

PelangganUpdate(token, id, req) ==
    /\ resp = NoResp
    /\ Answer("pelanggan_update", token, [id |-> id, req |-> req],
              pelanggan_update(token, id, req))
    /\ UNCHANGED <<tagihan, pelanggan, paket, users, seq_paket, writes, codecVars, db, auth>>

PelangganDelete(token, id) ==
    /\ resp = NoResp
    /\ Answer("pelanggan_delete", token, [id |-> id], pelanggan_delete(token, id))
    /\ UNCHANGED <<tagihan, pelanggan, paket, users, seq_paket, writes, codecVars, db, auth>>

PaketGetAll(token, req, stream) ==
    /\ resp = NoResp
    /\ \E tie \in Perms({pk.id : pk \in paket}) :
          Answer("paket_get_all", token, req, paket_get_all(token, req, tie, stream))
    /\ UNCHANGED <<tagihan, pelanggan, paket, users, seq_paket, writes, codecVars, db, auth>>

PaketCreate(token, req, used) ==
    /\ resp = NoResp
    /\ CommitPaket("paket_create", token, [req |-> req], paket_create(token, req, used))

PaketGetById(token, id, stream) ==
    /\ resp = NoResp
    /\ Answer("paket_get_by_id", token, [id |-> id], paket_get_by_id(token, id, stream))
    /\ UNCHANGED <<tagihan, pelanggan, paket, users, seq_paket, writes, codecVars, db, auth>>

PaketUpdate(token, id, req, eager) ==
    /\ resp = NoResp
    /\ CommitPaket("paket_update", token, [id |-> id, req |-> req],
                   paket_update(token, id, req, eager) @@ [seq_paket |-> seq_paket])

PaketDelete(token, id) ==
    /\ resp = NoResp
    /\ CommitPaket("paket_delete", token, [id |-> id],
                   paket_delete(token, id) @@ [seq_paket |-> seq_paket])

\* the response is sent; what the request built is discarded
Reply ==
    /\ resp # NoResp
    /\ resp' = NoResp
    /\ UNCHANGED <<tagihan, pelanggan, paket, users, seq_paket, writes, codecVars, db, auth>>

Next ==
    \/ \E token \in Tokens, request \in TagihanRequests, stream \in NoiseStreams :
          GetTagihan(token, request, stream)
    \/ \E token \in Tokens, tahun \in Years, sqids_salt \in 0..MaxSalt,
          stream \in NoiseStreams :
          GetSummary(token, tahun, sqids_salt, stream)
    \/ \E token \in Tokens, id \in OpaqueIds, stream \in NoiseStreams :
          GetTagihanById(token, id, stream)
    \/ \E token \in Tokens, req \in TagihanPostRequests : InputTagihan(token, req)
    \/ \E token \in Tokens, id \in OpaqueIds, req \in TagihanPostRequests :
          EditTagihan(token, id, req)
    \/ \E token \in Tokens, id \in OpaqueIds : DeleteTagihan(token, id)
    \/ \E token \in Tokens, request \in PelangganRequests, stream \in NoiseStreams :
          PelangganGetAll(token, request, stream)
    \/ \E token \in Tokens, id \in OpaqueIds : PelangganGetById(token, id)
    \/ \E token \in Tokens, req \in PelangganPostRequests : PelangganCreate(token, req)
    \/ \E token \in Tokens, id \in OpaqueIds, req \in PelangganPostRequests :
          PelangganUpdate(token, id, req)
    \/ \E token \in Tokens, id \in OpaqueIds : PelangganDelete(token, id)
    \/ \E token \in Tokens, req \in PaketRequests, stream \in NoiseStreams :
          PaketGetAll(token, req, stream)
    \/ \E token \in Tokens, req \in PaketPostRequests, used \in BOOLEAN :
          PaketCreate(token, req, used)
    \/ \E token \in Tokens, id \in OpaqueIds, stream \in NoiseStreams :
          PaketGetById(token, id, stream)
    \/ \E token \in Tokens, id \in OpaqueIds, req \in PaketPostRequests, eager \in BOOLEAN :
          PaketUpdate(token, id, req, eager)
    \/ \E token \in Tokens, id \in OpaqueIds : PaketDelete(token, id)
    \/ Reply

Spec == InitApi /\ [][Next]_vars

----------------------------------------------------------------------------
(* The paginator on its own: PaginationHandler.get_page called with any    *)
(* paging and any filters, over tables the API can bring about.            *)

\* the paket rows POST /paket has added to those of init_db
ExtraPaket(n) ==
    { [id |-> Cardinality(SeedPaket) + k, nama |-> <<80, 48 + Cardinality(SeedPaket) + k>>,
       harga |-> 75, kecepatan |-> <<53, 77>>] : k \in 1..n }

InitPage ==
    /\ tagihan \in {rows \in SUBSET CandidateTagihan : TagihanUnique(rows)}
    /\ pelanggan = SeedPelanggan
    /\ \E n \in 0..MaxExtra :
          /\ paket = SeedPaket \cup ExtraPaket(n)
          /\ seq_paket = Cardinality(SeedPaket) + n + 1
    /\ users = SeedUsers
    /\ writes = 0
    /\ resp = NoResp
    /\ encLog = <<>>
    /\ decoded = NoCall
    /\ db = DuckDBConnectionPool
    /\ auth = NoAuth

\* page, size, sort and direction as a caller may pass them: every page and
\* size in range with the defaults, and page 1 of size 2 with a sort column
\* and a direction, valid or not
Pagings ==
    [page : 0..MaxPage, size : -1..MaxSize, sort : {""}, direction : {""}]
        \cup [page : {1}, size : {2}, sort : {"", "nope"},
              direction : {"", "asc", "DESC", "sideways"}]

\* the filters as a caller may pass them (FilterType(field, value, operator)),
\* by paginator
ClientFilters ==
    [tagihan |->
        { << FilterType("t.tahun", tahun, "="), FilterType(field, value, "=") >> :
             tahun \in {None, 2025},
             field \in {"t.pelanggan_id"}, value \in {None, 1} }
        \cup { << FilterType("p.pelanggan_id", 1, "=") >> },
     pelanggan |->
        { << FilterType("p.nama", nama, "ILIKE"), FilterType("p.paket_id", paket_id, "=") >> :
             nama \in {NoneText, <<110>>}, paket_id \in {None, 1} },
     paket |->
        { << FilterType("paket.nama", nama, "ILIKE"), FilterType("paket.harga", harga, "=") >> :
             nama \in {NoneText, <<>>, <<112>>}, harga \in {None, 0, 50} }
        \cup { << FilterType("paket.id", ids, operator) >> :
                  ids \in {NoneText, <<1>>, <<1, 2>>}, operator \in ListOperators }]

FiltersOf(source) == ClientFilters[source]

\* a count query that storage refuses is executed a second time
execute_list_param_again(outcome, accepts) ==
    IF accepts THEN outcome
    ELSE [status |-> 500, queries |-> <<outcome.queries[1], outcome.queries[1]>>,
          body |-> NoBody, raised |-> "duckdb.Error"]

\* db.execute with a list bound to the one placeholder of "field IN ?":
\* storage takes the list as the collection of IN, or rejects the statement,
\* depending on its version; the count query is the first to be executed
execute_list_param(outcome, accepts) ==
    IF accepts THEN outcome
    ELSE [status |-> 500, queries |-> <<outcome.queries[1]>>, body |-> NoBody,
          raised |-> "duckdb.Error"]

GetPage(source, paging, filters, stream) ==
    /\ resp = NoResp
    /\ \E tie \in (IF Unresolved(source, WhereClauses(filters)) THEN {<<>>}
                   ELSE Perms({row.id : row \in Matching(source, WhereClauses(filters))})),
          accepts \in (IF \E i \in 1..Len(filters) :
                             filters[i].operator \in ListOperators /\ HasValue(filters[i])
                       THEN BOOLEAN ELSE {TRUE}) :
          resp' = [op |-> "get_page",
                   request |-> [source |-> source, filters |-> filters] @@ paging]
                  @@ execute_list_param(
                         get_page(source, paging.page, paging.size, paging.sort,
                                  paging.direction, filters, tie, stream),
                         accepts)
    /\ UNCHANGED <<tagihan, pelanggan, paket, users, seq_paket, writes, codecVars, db, auth>>

NextPage ==
    \/ \E source \in {"tagihan", "pelanggan", "paket"}, paging \in Pagings,
          stream \in NoiseStreams :
          \E filters \in FiltersOf(source) : GetPage(source, paging, filters, stream)
    \/ Reply

SpecPage == InitPage /\ [][NextPage]_vars

----------------------------------------------------------------------------
(* Connections under concurrent requests: get_db hands every request a     *)
(* cursor of its own and closes it when the request is over; the pool's    *)
(* get_connection pops a pooled connection under the lock, or opens one    *)
(* when the list is empty, and gives it back or closes it on the way out.  *)
(* A step is what runs between two points where another thread may run:    *)
(* the statements under the lock, the caller's body, the except block.     *)

\* the cursor con.cursor() returns to request r: an object no other call
\* returns, numbered after every connection
cursor(r) == 2 * pool_size + MaxRequests + r

\* the connections some request holds
Held == {db.conn[r] : r \in Requests} \ {None}

\* the closed connections a request still holds; one that nobody holds is
\* garbage as soon as the step that closed it is over
StillClosed == db.closed \cap Held

\* duckdb.connect: a new connection, numbered with the first number after
\* those of the initial connections that no pooled or held connection has
connect ==
    CHOOSE c \in (pool_size + 1)..(2 * pool_size + MaxRequests) :
        /\ c \notin Held
        /\ \A k \in 1..Len(db.connections) : db.connections[k] # c
        /\ \A d \in (pool_size + 1)..(c - 1) :
              d \in Held \/ \E k \in 1..Len(db.connections) : db.connections[k] = d

\* get_db up to its yield
get_db(r) ==
    /\ db.at[r] = "idle"
    /\ db' = [db EXCEPT !.at[r] = "yield", !.via[r] = "get_db",
                        !.conn[r] = cursor(r), !.closed = StillClosed]
    /\ UNCHANGED <<apiVars, codecVars, auth>>

\* the finally of get_db, after the request returned or raised
get_db_finally(r) ==
    /\ db.via[r] = "get_db"
    /\ db.at[r] \in {"returned", "raised"}
    /\ db' = [db EXCEPT !.at[r] = "idle", !.via[r] = "", !.conn[r] = None,
                        !.closed = StillClosed \cup {db.conn[r]}]
    /\ UNCHANGED <<apiVars, codecVars, auth>>

\* get_connection reading the last pooled connection and leaving it in the list
get_connection_peek(r) ==
    /\ db.at[r] = "idle"
    /\ db' = [db EXCEPT !.at[r] = "yield", !.via[r] = "pool",
                        !.conn[r] = IF db.connections # <<>>
                                    THEN db.connections[Len(db.connections)]
                                    ELSE connect,
                        !.closed = StillClosed]
    /\ UNCHANGED <<apiVars, codecVars, auth>>

\* get_connection up to its yield
get_connection(r) ==
    /\ db.at[r] = "idle"
    /\ db' = [db EXCEPT !.at[r] = "yield", !.via[r] = "pool",
                        !.conn[r] = IF db.connections # <<>>
                                    THEN db.connections[Len(db.connections)]
                                    ELSE connect,
                        !.connections = IF @ # <<>> THEN SubSeq(@, 1, Len(@) - 1)
                                        ELSE @,
                        !.closed = StillClosed]
    /\ UNCHANGED <<apiVars, codecVars, auth>>

\* the body that runs with the connection: it returns or it raises
body(r, raises) ==
    /\ db.at[r] = "yield"
    /\ db' = [db EXCEPT !.at[r] = IF raises THEN "raised" ELSE "returned",
                        !.closed = StillClosed]
    /\ UNCHANGED <<apiVars, codecVars, auth>>

\* the except block of get_connection
get_connection_except(r) ==
    /\ db.via[r] = "pool"
    /\ db.at[r] = "raised"
    /\ db' = [db EXCEPT !.at[r] = "except",
                        !.closed = StillClosed \cup {db.conn[r]}]
    /\ UNCHANGED <<apiVars, codecVars, auth>>

\* the finally of get_connection appending whether or not the list has room
get_connection_finally_no_room(r, valid) ==
    /\ db.via[r] = "pool"
    /\ db.at[r] \in {"returned", "except"}
    /\ IF db.conn[r] \notin db.closed /\ valid
       THEN db' = [db EXCEPT !.at[r] = "idle", !.via[r] = "", !.conn[r] = None,
                             !.connections = Append(@, db.conn[r]),
                             !.closed = StillClosed]
       ELSE db' = [db EXCEPT !.at[r] = "idle", !.via[r] = "", !.conn[r] = None,
                             !.closed = StillClosed \cup {db.conn[r]}]
    /\ UNCHANGED <<apiVars, codecVars, auth>>

\* the finally of get_connection: under the lock the connection goes back
\* to the list when the list has room and SELECT 1 runs on it (valid; it
\* fails on a closed connection), and is closed otherwise
get_connection_finally(r, valid) ==
    /\ db.via[r] = "pool"
    /\ db.at[r] \in {"returned", "except"}
    /\ IF /\ Len(db.connections) < db.pool_size
          /\ db.conn[r] \notin db.closed
          /\ valid
       THEN db' = [db EXCEPT !.at[r] = "idle", !.via[r] = "", !.conn[r] = None,
                             !.connections = Append(@, db.conn[r]),
                             !.closed = StillClosed]
       ELSE db' = [db EXCEPT !.at[r] = "idle", !.via[r] = "", !.conn[r] = None,
                             !.closed = StillClosed \cup {db.conn[r]}]
    /\ UNCHANGED <<apiVars, codecVars, auth>>

NextDb ==
    \E r \in Requests :
        \/ get_db(r)
        \/ get_db_finally(r)
        \/ get_connection(r)
        \/ \E raises \in BOOLEAN : body(r, raises)
        \/ get_connection_except(r)
        \/ \E valid \in BOOLEAN : get_connection_finally(r, valid)

\* a generator that was resumed runs its except and finally blocks to the end
SpecDb ==
    /\ InitCodec
    /\ [][NextDb]_vars
    /\ \A r \in Requests :
          /\ WF_vars(get_db_finally(r))
          /\ WF_vars(get_connection_except(r))
          /\ WF_vars(\E valid \in BOOLEAN : get_connection_finally(r, valid))

\* close_all: under the lock every pooled connection is popped and closed
close_all ==
    /\ db' = [db EXCEPT !.connections = <<>>, !.closed = StillClosed]
    /\ UNCHANGED <<apiVars, codecVars, auth>>

\* a pool of any size up to MaxPoolSize
InitPool ==
    \E size \in 1..MaxPoolSize :
        /\ encLog = <<>>
        /\ decoded = NoCall
        /\ tagihan = {}
        /\ pelanggan = SeedPelanggan
        /\ paket = SeedPaket
        /\ users = SeedUsers
        /\ seq_paket = Cardinality(SeedPaket) + 1
        /\ writes = 0
        /\ resp = [op |-> "none"]
        /\ db = DuckDBConnectionPool_init(size)
        /\ auth = NoAuth

NextPool ==
    \/ \E r \in Requests :
          \/ get_connection(r)
          \/ \E raises \in BOOLEAN : body(r, raises)
          \/ get_connection_except(r)
          \/ \E valid \in BOOLEAN : get_connection_finally(r, valid)
    \/ close_all

\* threads that take their connections from one pool while close_all may
\* run at any time
SpecPool == InitPool /\ [][NextPool]_vars

----------------------------------------------------------------------------
(* The auth router (app/routers/auth.py) over UserRepository.  In this     *)
(* specification a row of users carries the columns the router reads and   *)
(* writes.  A registration is two steps, its two SELECTs and its INSERT,   *)
(* so that another request may run between them; the other handlers run    *)
(* in one step.                                                            *)

\* get_password_hash: the hash is the password under a name of its own
get_password_hash(password) == [hash |-> password]

\* the users before a request: the admin of init_db and the tests' regular
\* user, who is active or was deactivated
AuthUsers(is_active) ==
    { [id |-> 1, username |-> "admin", email |-> "admin@example.com",
       hashed_password |-> get_password_hash(0), is_active |-> TRUE, role |-> "ADMIN",
       reset_token |-> None, reset_token_expires |-> None],
      [id |-> 2, username |-> "testuser", email |-> "user@example.com",
       hashed_password |-> get_password_hash(0), is_active |-> is_active, role |-> "USER",
       reset_token |-> None, reset_token_expires |-> None] }

\* PRIMARY KEY(id), UNIQUE(username) and UNIQUE(email) of users
UsersUnique(rows) ==
    \A u1 \in rows, u2 \in rows :
        \/ u1 = u2
        \/ u1.id # u2.id /\ u1.username # u2.username /\ u1.email # u2.email

\* get_by_username and get_by_email: the rows the SELECT finds
UserRepository_get_by_username(username) == {u \in users : u.username = username}

UserRepository_get_by_email(email) == {u \in users : u.email = email}

\* the row INSERT INTO users (username, email, hashed_password, role) makes,
\* with the defaults of the other columns
NewUser(user) ==
    [id |-> Cardinality(users) + 1, username |-> user.username, email |-> user.email,
     hashed_password |-> get_password_hash(user.password), is_active |-> TRUE,
     role |-> user.role, reset_token |-> None, reset_token_expires |-> None]

\* create with an INSERT that no constraint stops
UserRepository_create_unconstrained(user) ==
    [raised |-> FALSE, users |-> users \cup {NewUser(user)}]

\* create: the INSERT raises when the row breaks a constraint of the table
UserRepository_create(user) ==
    IF UsersUnique(users \cup {NewUser(user)})
    THEN [raised |-> FALSE, users |-> users \cup {NewUser(user)}]
    ELSE [raised |-> TRUE, users |-> users]

\* the bodies of POST /auth/register
UserCreates ==
    [username : {"admin", "newuser", "newuser2"},
     email : {"admin@example.com", "new@example.com"},
     password : {1}, role : {"USER"}]

\* register up to create: 400 when a SELECT finds the username or the email
RegisterCheck(r, user) ==
    /\ resp = NoResp
    /\ auth.pending[r] = <<>>
    /\ IF \/ UserRepository_get_by_username(user.username) # {}
          \/ UserRepository_get_by_email(user.email) # {}
       THEN /\ resp' = [op |-> "register", request |-> user, status |-> 400,
                        body |-> NoBody]
            /\ auth' = auth
       ELSE /\ auth' = [auth EXCEPT !.pending[r] = <<user>>]
            /\ resp' = resp
    /\ UNCHANGED <<tagihan, pelanggan, paket, users, seq_paket, writes, codecVars, db>>

\* register from create on: the row is answered with 201; an INSERT that
\* raises is caught by nothing and the request ends in 500
RegisterCreate(r) ==
    /\ resp = NoResp
    /\ auth.pending[r] # <<>>
    /\ LET user == auth.pending[r][1]
           created == UserRepository_create(user)
       IN  /\ users' = created.users
           /\ resp' = [op |-> "register", request |-> user,
                       status |-> IF created.raised THEN 500 ELSE 201,
                       body |-> IF created.raised THEN NoBody
                                ELSE [username |-> user.username, email |-> user.email]]
    /\ auth' = [auth EXCEPT !.pending[r] = <<>>]
    /\ UNCHANGED <<tagihan, pelanggan, paket, seq_paket, writes, codecVars, db>>

\* A token as a client sends it to POST /auth/refresh: the type it was
\* created with, whether its signature and expiry verify, and the "sub" of
\* its payload ("" when the payload has none)
RefreshTokenRequests ==
    [type : {"access", "refresh"}, valid : BOOLEAN,
     sub : {"admin", "testuser", "ghost", ""}]

\* verify_token: the payload of a token that verifies and has the type asked
\* for, None (<<>>) otherwise
verify_token(token, token_type) ==
    IF token.valid /\ token.type = token_type THEN <<[sub |-> token.sub]>> ELSE <<>>

\* create_access_token and create_refresh_token
create_token(type, sub) == [type |-> type, valid |-> TRUE, sub |-> sub]

\* refresh_token without the look at is_active
refresh_token_any_user(token) ==
    LET payload == verify_token(token, "refresh")
    IN  IF payload = <<>> \/ payload[1].sub = ""
           \/ UserRepository_get_by_username(payload[1].sub) = {}
        THEN [status |-> 401, body |-> NoBody]
        ELSE [status |-> 200,
              body |-> [access_token |-> create_token("access", payload[1].sub),
                        refresh_token |-> create_token("refresh", payload[1].sub)]]

\* refresh_token
refresh_token(token) ==
    LET payload == verify_token(token, "refresh")
    IN  IF payload = <<>> THEN [status |-> 401, body |-> NoBody]
        ELSE IF payload[1].sub = "" THEN [status |-> 401, body |-> NoBody]
        ELSE IF \/ UserRepository_get_by_username(payload[1].sub) = {}
                \/ \E u \in UserRepository_get_by_username(payload[1].sub) : ~u.is_active
        THEN [status |-> 401, body |-> NoBody]
        ELSE [status |-> 200,
              body |-> [access_token |-> create_token("access", payload[1].sub),
                        refresh_token |-> create_token("refresh", payload[1].sub)]]

\* POST /auth/refresh
Refresh(token) ==
    /\ resp = NoResp
    /\ resp' = [op |-> "refresh_token", request |-> token] @@ refresh_token(token)
    /\ UNCHANGED <<tagihan, pelanggan, paket, users, seq_paket, writes, codecVars, db, auth>>

\* the tokens generate_reset_token may return: any token no earlier call
\* returned
generate_reset_token == (1..MaxTokens) \ auth.issued

\* set_reset_token
UserRepository_set_reset_token(rows, email, token, expires_at) ==
    { IF u.email = email
      THEN [u EXCEPT !.reset_token = token, !.reset_token_expires = expires_at]
      ELSE u : u \in rows }

\* get_by_reset_token: the rows with the token and an expiry after now
UserRepository_get_by_reset_token(token) ==
    {u \in users : u.reset_token = token /\ u.reset_token_expires > auth.now}

\* update_password
UserRepository_update_password(rows, user_id, new_password) ==
    { IF u.id = user_id THEN [u EXCEPT !.hashed_password = get_password_hash(new_password)]
      ELSE u : u \in rows }

\* clear_reset_token leaving the token where it is
clear_reset_token_kept(rows, user_id) == rows

\* clear_reset_token
UserRepository_clear_reset_token(rows, user_id) ==
    { IF u.id = user_id
      THEN [u EXCEPT !.reset_token = None, !.reset_token_expires = None]
      ELSE u : u \in rows }

\* POST /auth/forgot-password: 200 whether or not the email is stored; for a
\* stored email a token no earlier call drew is stored with an expiry one
\* hour ahead and returned
ForgotPassword(email) ==
    /\ resp = NoResp
    /\ IF UserRepository_get_by_email(email) = {}
       THEN /\ resp' = [op |-> "forgot_password", request |-> [email |-> email],
                        status |-> 200, body |-> NoBody]
            /\ UNCHANGED <<users, auth>>
       ELSE \E reset_token \in generate_reset_token :
               /\ users' = UserRepository_set_reset_token(users, email, reset_token,
                                                          auth.now + 1)
               /\ auth' = [auth EXCEPT !.issued = @ \cup {reset_token}]
               /\ resp' = [op |-> "forgot_password", request |-> [email |-> email],
                           status |-> 200,
                           body |-> [reset_token |-> reset_token,
                                     expires_at |-> auth.now + 1]]
    /\ UNCHANGED <<tagihan, pelanggan, paket, seq_paket, writes, codecVars, db>>

\* POST /auth/reset-password
ResetPassword(reset_data) ==
    /\ resp = NoResp
    /\ LET found == UserRepository_get_by_reset_token(reset_data.token)
       IN  IF found = {}
           THEN /\ resp' = [op |-> "reset_password", request |-> reset_data,
                            status |-> 400, body |-> NoBody]
                /\ UNCHANGED <<users, auth>>
           ELSE \E user \in found :
                   /\ users' = UserRepository_clear_reset_token(
                                   UserRepository_update_password(
                                       users, user.id, reset_data.new_password),
                                   user.id)
                   /\ auth' = [auth EXCEPT !.used = @ \cup {reset_data.token}]
                   /\ resp' = [op |-> "reset_password", request |-> reset_data,
                               status |-> 200, body |-> NoBody]
    /\ UNCHANGED <<tagihan, pelanggan, paket, seq_paket, writes, codecVars, db>>

\* an hour passes
Tick ==
    /\ auth.now < MaxTime
    /\ auth' = [auth EXCEPT !.now = @ + 1]
    /\ UNCHANGED <<apiVars, codecVars, db>>

InitAuth ==
    /\ \E is_active \in BOOLEAN : users = AuthUsers(is_active)
    /\ tagihan = {}
    /\ pelanggan = SeedPelanggan
    /\ paket = SeedPaket
    /\ seq_paket = Cardinality(SeedPaket) + 1
    /\ writes = 0
    /\ resp = NoResp
    /\ encLog = <<>>
    /\ decoded = NoCall
    /\ db = DuckDBConnectionPool
    /\ auth = NoAuth

NextAuth ==
    \/ \E r \in Requests, user \in UserCreates : RegisterCheck(r, user)
    \/ \E r \in Requests : RegisterCreate(r)
    \/ \E token \in RefreshTokenRequests : Refresh(token)
    \/ \E email \in {"user@example.com", "new@example.com"} : ForgotPassword(email)
    \/ \E reset_data \in [token : 1..MaxTokens, new_password : {1, 2}] :
          ResetPassword(reset_data)
    \/ Tick
    \/ Reply

SpecAuth == InitAuth /\ [][NextAuth]_vars

----------------------------------------------------------------------------
(* Claims about the codec.                                                 *)

\* C5: for every id and every salt (none included) and whatever noise encode
\* draws, decode applied to the string encode returned gives the id back.
C5_RoundTrip ==
    decoded.made => /\ ~decoded.raised
                    /\ decoded.value = encLog[decoded.of].number

\* a round trip through an explicit salt, after a first call without salt
C5_Witness ==
    /\ decoded.made
    /\ Len(encLog) = 2
    /\ encLog[1].salt = None
    /\ encLog[2].salt = MaxSalt
    /\ decoded.of = 2
    /\ decoded.value = MaxId

\* the two calls in encLog are calls without a salt
TwoUnsaltedCalls ==
    /\ Len(encLog) = 2
    /\ encLog[1].salt = None
    /\ encLog[2].salt = None

C7_SaltedIsDeterministic ==
    /\ \A i \in 1..Len(encLog) :
          encLog[i].salt # None =>
              encLog[i].out = Sqids_encode(<<encLog[i].number, encLog[i].salt>>)
    /\ (Len(encLog) = 2 /\ encLog[1].salt # None /\ encLog[1].salt = encLog[2].salt)
          => encLog[1].out = encLog[2].out

\* C8: decode never raises; it returns an integer or None.
C8_DecodeNeverRaises ==
    decoded.made => /\ ~decoded.raised
                    /\ decoded.value = None \/ decoded.value \in Nat

\* decode of a string with a foreign character, answered None
C8_Witness ==
    /\ decoded.made
    /\ Contains(decoded.input, ForeignChar)
    /\ Len(decoded.input) = MaxStrLen
    /\ decoded.value = None

----------------------------------------------------------------------------
(* Claims about the role checks and the scope of the tagihan list and      *)
(* summary.                                                                *)

ScopedOps == {"get_tagihan", "get_summary"}

\* the request parameter a clause's column stands for
RequestKey(field) ==
    CASE field \in {"t.tahun", "tahun"} -> "tahun"
      [] field = "t.bulan" -> "bulan"
      [] field \in {"p.pelanggan_id", "t.pelanggan_id", "pelanggan_id"} -> "pelanggan_id"
      [] field = "p.paket_id" -> "paket_id"

\* the predicates of an executed query, as (request parameter, bound value)
QueryPredicates(query) ==
    { <<RequestKey(query.where[i].field), query.where[i].param>> : i \in 1..Len(query.where) }

\* the predicates the client's request asks for
ClientPredicates(request) ==
    { <<key, request[key]>> :
         key \in { k \in DOMAIN request \cap {"tahun", "bulan", "pelanggan_id", "paket_id"} :
                      request[k] # None } }

\* the pelanggan ids that the rows of a list or summary response carry
ReturnedPelangganIds ==
    IF resp.op = "get_tagihan"
    THEN { decode(resp.body.content[i].pelanggan.id).value : i \in 1..Len(resp.body.content) }
    ELSE { decode(resp.body.content[i].pelanggan_id).value : i \in 1..Len(resp.body.content) }

\* C1: for a USER bound to pelanggan S, every row the tagihan list and the
\* tagihan summary return has pelanggan_id = S, whatever the tables hold and
\* whatever filter the client sends, a pelanggan_id other than S included:
\* every executed query filters pelanggan_id by S and by nothing else.
C1_UserSeesOnlyOwnRows ==
    (/\ resp.op \in ScopedOps
     /\ resp.caller.role = "USER"
     /\ resp.caller.pelanggan_id # None)
        => /\ \A id \in ReturnedPelangganIds : id = resp.caller.pelanggan_id
           /\ \A i \in 1..Len(resp.queries) :
                 \A pred \in QueryPredicates(resp.queries[i]) :
                     pred[1] = "pelanggan_id" => pred[2] = resp.caller.pelanggan_id
           /\ \A i \in 1..Len(resp.queries) :
                 <<"pelanggan_id", resp.caller.pelanggan_id>> \in QueryPredicates(resp.queries[i])

\* the USER bound to pelanggan 2 lists with the filter pelanggan_id = 1 and
\* is answered a row
C1_Witness ==
    /\ resp.op = "get_tagihan"
    /\ resp.caller.role = "USER"
    /\ resp.caller.pelanggan_id = 2
    /\ resp.request.pelanggan_id = 1
    /\ resp.status = 200
    /\ Len(resp.body.content) = 1
    /\ \E t \in tagihan : t.pelanggan_id = 1 /\ t.bulan = resp.request.bulan

\* C2: for a USER without pelanggan_id the tagihan list and the tagihan
\* summary end in 403 and no count, data or summary query has been executed.
C2_UnboundUserRefusedBeforeStorage ==
    (/\ resp.op \in ScopedOps
     /\ resp.caller.role = "USER"
     /\ resp.caller.pelanggan_id = None)
        => /\ resp.status = 403
           /\ resp.queries = <<>>

\* the USER bound to no pelanggan asks for the summary of a year with rows
C2_Witness ==
    /\ resp.op = "get_summary"
    /\ resp.caller.username = "testuser"
    /\ resp.status = 403
    /\ SummaryRows(resp.request.tahun) # {}

\* C3: for an ADMIN the tagihan list and the tagihan summary execute queries
\* whose predicates are exactly those of the client's request, none forced;
\* without a pelanggan_id filter the rows of every pelanggan are counted and
\* summarised.
C3_AdminQueriesAsRequested ==
    (/\ resp.op \in ScopedOps
     /\ resp.caller.role = "ADMIN")
        => /\ resp.queries # <<>>
           /\ \A i \in 1..Len(resp.queries) :
                 /\ QueryPredicates(resp.queries[i]) = ClientPredicates(resp.request)
                 /\ Len(resp.queries[i].where) = Cardinality(ClientPredicates(resp.request))
           /\ (resp.op = "get_tagihan" /\ resp.status = 200
                  /\ resp.request.pelanggan_id = None)
                 => resp.body.total_elements =
                       Cardinality({ row \in TagihanJoin :
                                       /\ row.tahun = resp.request.tahun
                                       /\ row.bulan = resp.request.bulan
                                       /\ \/ resp.request.paket_id = None
                                          \/ row.p_paket_id = resp.request.paket_id })
           /\ (resp.op = "get_summary" /\ resp.status = 200)
                 => { decode(resp.body.content[i].id).value : i \in 1..Len(resp.body.content) }
                       = { t.id : t \in SummaryRows(resp.request.tahun) }

\* the ADMIN lists without a pelanggan_id filter and is answered the rows of
\* two pelanggan
C3_Witness ==
    /\ resp.op = "get_tagihan"
    /\ resp.caller.role = "ADMIN"
    /\ resp.request.pelanggan_id = None
    /\ resp.status = 200
    /\ Len(resp.body.content) = 2
    /\ decode(resp.body.content[1].pelanggan.id).value
          # decode(resp.body.content[2].pelanggan.id).value

AdminOnlyOps ==
    {"get_tagihan_by_id", "input_tagihan", "edit_tagihan", "delete_tagihan",
     "pelanggan_get_all", "pelanggan_get_by_id", "pelanggan_create", "pelanggan_update",
     "pelanggan_delete", "paket_get_all", "paket_create", "paket_get_by_id",
     "paket_update", "paket_delete"}

\* C4: on every pelanggan and paket endpoint and on tagihan get-by-id,
\* create, update and delete, a request whose current user has a role other
\* than ADMIN is answered 403, executes no statement of the repository and
\* leaves every table as it was.
C4_NonAdminRefused ==
    [][ (/\ resp.op = "none"
         /\ resp'.op \in AdminOnlyOps
         /\ resp'.caller # NoUser
         /\ resp'.caller.role # "ADMIN")
            => /\ resp'.status = 403
               /\ resp'.queries = <<>>
               /\ UNCHANGED <<tagihan, pelanggan, paket, users, seq_paket>> ]_vars

\* a USER asks to delete a tagihan row that exists and is refused
C4_Witness ==
    /\ resp.op = "delete_tagihan"
    /\ resp.caller.role = "USER"
    /\ resp.status = 403
    /\ \E t \in tagihan : t.id = decode(resp.request.id).value

----------------------------------------------------------------------------
(* Claims about rows that are not there.                                   *)

\* the ids of the rows of the table an operation addresses
AddressedIds(op) ==
    CASE op \in {"get_tagihan_by_id", "edit_tagihan", "delete_tagihan"} ->
            {t.id : t \in tagihan}
      [] op \in {"pelanggan_get_by_id", "pelanggan_update", "pelanggan_delete"} ->
            {p.id : p \in pelanggan}
      [] op \in {"paket_get_by_id", "paket_update", "paket_delete"} ->
            {pk.id : pk \in paket}

\* C9: on the get-by-id endpoints of pelanggan, paket and tagihan, an opaque
\* id that does not decode and an opaque id that decodes to the id of no row
\* are both answered 404, never another status.
C9_AbsentIs404 ==
    (/\ resp.op \in {"get_tagihan_by_id", "pelanggan_get_by_id", "paket_get_by_id"}
     /\ resp.caller.role = "ADMIN"
     /\ \/ decode(resp.request.id).value = None
        \/ decode(resp.request.id).value \notin AddressedIds(resp.op))
        => resp.status = 404

\* C10: a PUT or DELETE of a pelanggan or a tagihan whose opaque id decodes
\* to the id of no stored row is answered 404 and leaves the table as it
\* was; it is never answered with success, 400 or 500.
C10_MissingRowIs404 ==
    [][ (/\ resp.op = "none"
         /\ resp'.op \in {"edit_tagihan", "delete_tagihan", "pelanggan_update",
                          "pelanggan_delete"}
         /\ resp'.caller.role = "ADMIN"
         /\ decode(resp'.request.id).value # None
         /\ decode(resp'.request.id).value \notin AddressedIds(resp'.op))
            => /\ resp'.status = 404
               /\ UNCHANGED <<tagihan, pelanggan>> ]_vars

----------------------------------------------------------------------------
(* Claims about the paginator.                                             *)

\* C11: the page get_page returns has total_pages = ceil(total_elements /
\* size) when size > 0, and total_pages = 1 when size <= 0, for every total
\* and every page.
C11_TotalPagesIsCeiling ==
    (resp.op = "get_page" /\ resp.status = 200)
        => /\ resp.body.total_elements >= 0
           /\ resp.request.size > 0 =>
                 /\ resp.body.total_pages * resp.request.size >= resp.body.total_elements
                 /\ (resp.body.total_pages - 1) * resp.request.size < resp.body.total_elements
           /\ resp.request.size <= 0 => resp.body.total_pages = 1

\* three rows in pages of two make two pages
C11_Witness ==
    /\ resp.op = "get_page"
    /\ resp.status = 200
    /\ resp.request.size = 2
    /\ resp.body.total_elements = 3
    /\ resp.body.total_pages = 2

\* C12 as stated: when no row matches (size > 0), total_pages is forced to 1
\* and page 1 is empty, first and last.
C12_EmptyForcesOnePage ==
    (/\ resp.op = "get_page" /\ resp.status = 200
     /\ resp.request.size > 0 /\ resp.request.page = 1
     /\ resp.body.total_elements = 0)
        => /\ resp.body.total_pages = 1
           /\ resp.body.content = <<>>
           /\ resp.body.is_empty /\ resp.body.is_first /\ resp.body.is_last

\* C12: when no row matches (size > 0), total_pages is ceil(0 / size) = 0,
\* and page 1 is empty, first and last.
C12_EmptyHasNoPages ==
    (/\ resp.op = "get_page" /\ resp.status = 200
     /\ resp.request.size > 0 /\ resp.request.page = 1
     /\ resp.body.total_elements = 0)
        => /\ resp.body.total_pages = 0
           /\ resp.body.content = <<>>
           /\ resp.body.is_empty /\ resp.body.is_first /\ resp.body.is_last

\* page 1 of a tagihan table without rows
C12_Witness ==
    /\ resp.op = "get_page" /\ resp.status = 200
    /\ resp.request.source = "tagihan"
    /\ resp.request.size > 0 /\ resp.request.page = 1
    /\ tagihan = {}
    /\ resp.body.total_elements = 0

\* C13: in every page get_page returns, number_of_elements = len(content),
\* is_empty <=> number_of_elements = 0, is_first <=> page <= 1, is_last <=>
\* page >= total_pages, and page and size are those of the request.
C13_PageMetadata ==
    (resp.op = "get_page" /\ resp.status = 200)
        => /\ resp.body.number_of_elements = Len(resp.body.content)
           /\ resp.body.is_empty <=> (resp.body.number_of_elements = 0)
           /\ resp.body.is_first <=> (resp.request.page <= 1)
           /\ resp.body.is_last <=> (resp.request.page >= resp.body.total_pages)
           /\ resp.body.page = resp.request.page
           /\ resp.body.size = resp.request.size

\* the second and last page of three rows in pages of two carries one row
C13_Witness ==
    /\ resp.op = "get_page" /\ resp.status = 200
    /\ resp.request.page = 2 /\ resp.request.size = 2
    /\ resp.body.total_elements = 3
    /\ resp.body.number_of_elements = 1
    /\ resp.body.is_last /\ ~resp.body.is_first

\* the filters of the request that carry a value, in the order given
GivenFilters ==
    LET Present(filter) ==
            IF filter.field \in TextColumns \/ filter.operator \in ListOperators
            THEN filter.value # NoneText
            ELSE filter.value # None
    IN  SelectSeq(resp.request.filters, Present)

\* C14: a filter whose value is None adds no condition and no parameter to
\* the count query or to the data query; a filter with a value, 0 and the
\* empty string included, adds exactly one condition, in the order given.
C14_AbsentFiltersAreOmitted ==
    resp.op = "get_page"
        => \A i \in 1..Len(resp.queries) :
              /\ Len(resp.queries[i].where) = Len(GivenFilters)
              /\ \A k \in 1..Len(GivenFilters) :
                    /\ resp.queries[i].where[k].field = GivenFilters[k].field
                    /\ resp.queries[i].where[k].operator = GivenFilters[k].operator

\* the empty string and 0 are filtered on: two conditions in both queries
C14_Witness ==
    /\ resp.op = "get_page" /\ resp.status = 200
    /\ resp.request.source = "paket"
    /\ Len(resp.request.filters) = 2
    /\ resp.request.filters[1].value = <<>>
    /\ resp.request.filters[2].value = 0
    /\ Len(resp.queries) = 2
    /\ Len(resp.queries[1].where) = 2 /\ Len(resp.queries[2].where) = 2

\* C15: the parameter an ILIKE filter binds is "%" + value + "%"; the
\* parameter a filter with another operator binds is the value itself.
C15_IlikeWrapsValue ==
    resp.op = "get_page"
        => \A i \in 1..Len(resp.queries) :
              \A k \in 1..Len(resp.queries[i].where) :
                 resp.queries[i].where[k].param =
                    IF GivenFilters[k].operator = "ILIKE"
                    THEN <<37>> \o GivenFilters[k].value \o <<37>>
                    ELSE GivenFilters[k].value

\* paket.nama ILIKE "%p%" with paket.harga = 50 finds the row of init_db
C15_Witness ==
    /\ resp.op = "get_page" /\ resp.status = 200
    /\ Len(resp.queries) = 2 /\ Len(resp.queries[2].where) = 2
    /\ resp.queries[2].where[1].operator = "ILIKE"
    /\ resp.queries[2].where[1].param = <<37, 112, 37>>
    /\ resp.queries[2].where[2].param = 50
    /\ resp.body.total_elements = 1

\* C16 as stated: an IN or NOT IN filter with a list of n elements is
\* rendered with n placeholders.
C16_InExpandsPerElement ==
    resp.op = "get_page"
        => \A i \in 1..Len(resp.queries) :
              \A k \in 1..Len(resp.queries[i].where) :
                 resp.queries[i].where[k].operator \in ListOperators
                    => Cardinality({ j \in 1..Len(resp.queries[i].where[k].text) :
                                        resp.queries[i].where[k].text[j] = "?" })
                          = Len(GivenFilters[k].value)

\* the rows of the source that the page of the response was counted over
CountedRows == Matching(resp.request.source, resp.queries[1].where)

\* C17: total_elements is the number of rows that satisfy the predicates,
\* whatever page, size, sort and direction are: the count query carries the
\* WHERE clause and the parameters of the data query and no LIMIT, OFFSET
\* or ORDER BY, and the same predicates asked for with another page, size
\* or direction give the same total.
C17_CountIgnoresPaging ==
    (resp.op = "get_page" /\ resp.status = 200)
        => /\ resp.queries[1].kind = "count"
           /\ resp.queries[1].where = resp.queries[2].where
           /\ DOMAIN resp.queries[1] \cap {"order", "limit", "offset"} = {}
           /\ resp.body.total_elements = Cardinality(CountedRows)
           /\ \A page \in {1, MaxPage}, size \in {1, MaxSize}, direction \in {"", "asc"} :
                 LET other == get_page(resp.request.source, page, size, "", direction,
                                       resp.request.filters,
                                       CHOOSE tie \in Perms({row.id : row \in CountedRows}) : TRUE,
                                       0)
                 IN  other.status = 200
                        => other.body.total_elements = resp.body.total_elements

\* three rows are counted on a page that carries one of them
C17_Witness ==
    /\ resp.op = "get_page" /\ resp.status = 200
    /\ resp.request.size = 1 /\ resp.request.page = 2
    /\ resp.body.total_elements = 3
    /\ resp.body.number_of_elements = 1

\* C18 as stated: a list request whose direction is neither ASC nor DESC is
\* rejected as invalid before any query is executed.
C18_InvalidDirectionRejectedFirst ==
    (/\ resp.op = "paket_get_all"
     /\ resp.caller # NoUser
     /\ resp.caller.role = "ADMIN"
     /\ resp.request.direction \notin {"", "asc", "desc", "ASC", "DESC"})
        => /\ resp.status = 422
           /\ resp.queries = <<>>

\* C19: a row the map_function fails on makes get_page raise the exception
\* of the map_function, never that of storage, and only after both queries
\* ran; a page that is returned carries every row the data query returned.
C19_MappingErrorIsDistinct ==
    resp.op = "get_page"
        => /\ resp.status = 200 =>
                 Len(resp.body.content) =
                    IF Cardinality(CountedRows) <= resp.queries[2].offset THEN 0
                    ELSE Min(resp.queries[2].limit,
                             Cardinality(CountedRows) - resp.queries[2].offset)
           /\ resp.status # 200 => resp.raised \in {"AttributeError", "duckdb.Error"}
           /\ resp.raised = "AttributeError" =>
                 /\ Len(resp.queries) = 2
                 /\ resp.request.source = "tagihan"
                 /\ \E row \in CountedRows : row.tanggal_bayar = None
           /\ resp.raised = "duckdb.Error" =>
                 \/ Len(resp.queries) = 1
                 \/ resp.request.sort \notin {"", "t.tanggal_bayar", "p.nama", "paket.nama"}
                 \/ resp.request.direction \notin {"", "asc", "desc", "ASC", "DESC"}
                 \/ resp.request.size < 0

\* a tagihan row without tanggal_bayar is on the page asked for
C19_Witness ==
    /\ resp.op = "get_page"
    /\ resp.raised = "AttributeError"
    /\ resp.status = 500
    /\ Cardinality(CountedRows) > 1


----------------------------------------------------------------------------
(* Claims about the connections.                                           *)

\* C20: however concurrent requests interleave, no connection (cursor or
\* pooled connection) is held by two requests at once nor held while it is
\* in the pool's list; a request that lets go of its connection leaves it
\* closed or in the list; and a request whose body returned or raised does
\* let go of it.
C20_OneHolderThenReleased ==
    /\ [](\A r \in Requests :
            /\ \A other \in Requests \ {r} :
                  db.conn[r] # None => db.conn[r] # db.conn[other]
            /\ \A k \in 1..Len(db.connections) : db.connections[k] # db.conn[r]
            /\ (db.at[r] = "idle") <=> (db.conn[r] = None))
    /\ [][\A r \in Requests :
            (db.conn[r] # None /\ db.conn'[r] = None) =>
                \/ db.conn[r] \in db.closed'
                \/ \E k \in 1..Len(db.connections') :
                      db.connections'[k] = db.conn[r]]_vars
    /\ \A r \in Requests :
          (db.at[r] \in {"returned", "raised"}) ~> (db.conn[r] = None)

\* two requests at once, one with a cursor whose body returned and one with
\* a connection opened for it, after bodies that raised emptied the pool
C20_Witness ==
    \E r1 \in Requests, r2 \in Requests :
        /\ db.via[r1] = "get_db" /\ db.at[r1] = "returned"
        /\ db.via[r2] = "pool" /\ db.at[r2] = "yield"
        /\ db.connections = <<>>
        /\ db.conn[r2] > pool_size

----------------------------------------------------------------------------
(* Claims about writes, accounts and the pool.                             *)

\* C21: a POST /tagihan by an admin whose (tahun, bulan, pelanggan_id) is
\* that of a stored tagihan is answered 400 or 409 and leaves the table as
\* it was.
C21_DuplicateCreateRejected ==
    [][ (/\ resp.op = "none"
         /\ resp'.op = "input_tagihan"
         /\ resp'.caller.role = "ADMIN"
         /\ \E t \in tagihan :
               /\ t.tahun = resp'.request.req.tahun
               /\ t.bulan = resp'.request.req.bulan
               /\ t.pelanggan_id = decode(resp'.request.req.pelanggan_id).value)
            => /\ resp'.status \in {400, 409}
               /\ UNCHANGED tagihan ]_vars

\* C22: a registration whose username or email is stored when its checks
\* run is answered 400; one that finds it stored only at its INSERT, because
\* another registration ran in between, is not answered with success; both
\* leave users as it was, and no two users ever share an id, a username or
\* an email.
C22_RegisterKeepsUsersUnique ==
    /\ [](UsersUnique(users))
    /\ [][ (/\ resp.op = "none"
            /\ resp'.op = "register"
            /\ \E u \in users : \/ u.username = resp'.request.username
                                \/ u.email = resp'.request.email)
               => /\ auth' = auth => resp'.status = 400
                  /\ resp'.status # 201
                  /\ UNCHANGED users ]_vars

\* the second of two registrations of one username that both passed their
\* checks has been refused by the table, the first being stored
C22_Witness ==
    /\ resp.op = "register"
    /\ resp.status = 500
    /\ \E u \in users : u.username = resp.request.username /\ u.id > 2

\* C23: POST /auth/refresh answers 200 with a new access and a new refresh
\* token for the token's subject exactly when the token verifies, is of type
\* refresh and names a stored, active user; every other request is answered
\* 401 and carries no token.
C23_RefreshOnlyForActiveUser ==
    resp.op = "refresh_token" =>
        IF /\ resp.request.valid
           /\ resp.request.type = "refresh"
           /\ \E u \in users : u.username = resp.request.sub /\ u.is_active
        THEN /\ resp.status = 200
             /\ resp.body.access_token.sub = resp.request.sub
             /\ resp.body.refresh_token.sub = resp.request.sub
        ELSE resp.status = 401 /\ resp.body = NoBody

\* a refresh token that verifies and names the deactivated user has been
\* refused
C23_Witness ==
    /\ resp.op = "refresh_token"
    /\ resp.request.valid /\ resp.request.type = "refresh"
    /\ \E u \in users : u.username = resp.request.sub /\ ~u.is_active
    /\ resp.status = 401

\* C24 as stated: in every query of a USER's tagihan list the last predicate
\* of the WHERE clause is the scope predicate and its value is the caller's
\* pelanggan_id.
C24_ScopeIsLast ==
    (resp.op = "get_tagihan" /\ resp.caller.role = "USER") =>
        \A i \in 1..Len(resp.queries) :
            /\ resp.queries[i].where # <<>>
            /\ resp.queries[i].where[Len(resp.queries[i].where)].field = "t.pelanggan_id"
            /\ resp.queries[i].where[Len(resp.queries[i].where)].param
                  = resp.caller.pelanggan_id

\* C24 as amended: in every query of a USER's tagihan list exactly one
\* predicate is on pelanggan_id, it is t.pelanggan_id = the caller's
\* pelanggan_id, the predicates before it are the client's tahun and bulan
\* and the only predicate after it is the client's paket_id.
C24_ScopeFollowsPeriod ==
    (resp.op = "get_tagihan" /\ resp.caller.role = "USER") =>
        \A i \in 1..Len(resp.queries) :
            \E k \in 1..Len(resp.queries[i].where) :
                /\ resp.queries[i].where[k].field = "t.pelanggan_id"
                /\ resp.queries[i].where[k].param = resp.caller.pelanggan_id
                /\ \A j \in 1..Len(resp.queries[i].where) :
                      /\ j < k => resp.queries[i].where[j].field \in {"t.tahun", "t.bulan"}
                      /\ j > k => /\ resp.queries[i].where[j].field = "p.paket_id"
                                  /\ resp.queries[i].where[j].param = resp.request.paket_id

\* a USER's list request with a paket_id has been answered from queries
\* whose scope predicate is followed by the paket_id predicate
C24_Witness ==
    /\ resp.op = "get_tagihan"
    /\ resp.caller.role = "USER"
    /\ resp.request.paket_id # None
    /\ resp.queries # <<>>
    /\ Len(resp.queries[1].where) = 4
    /\ resp.queries[1].where[3].field = "t.pelanggan_id"
    /\ resp.queries[1].where[4].field = "p.paket_id"

\* C25: in every query of a get_page call the k-th rendered condition is
\* that of the k-th filter that carries a value and the k-th bound parameter
\* is that filter's, the conditions hold as many placeholders as there are
\* bound parameters, and the count query and the data query have the same
\* conditions and the same parameters.
C25_OrderPreserved ==
    resp.op = "get_page"
        => \A i \in 1..Len(resp.queries) :
              /\ Len(resp.queries[i].where) = Len(GivenFilters)
              /\ \A k \in 1..Len(resp.queries[i].where) :
                    /\ resp.queries[i].where[k].text
                          = <<GivenFilters[k].field, GivenFilters[k].operator, "?">>
                    /\ resp.queries[i].where[k].param
                          = Clause(GivenFilters[k]).param
              /\ Cardinality({kj \in (1..Len(resp.queries[i].where)) \X (1..3) :
                                 resp.queries[i].where[kj[1]].text[kj[2]] = "?"})
                    = Len(resp.queries[i].where)
              /\ resp.queries[i].where = resp.queries[1].where

\* both queries of a page of paket carry the conditions on nama and harga in
\* the order the filters were given
C25_Witness ==
    /\ resp.op = "get_page" /\ resp.status = 200
    /\ resp.request.source = "paket"
    /\ Len(resp.queries) = 2
    /\ Len(resp.queries[2].where) = 2
    /\ resp.queries[1].where[1].field = "paket.nama"
    /\ resp.queries[2].where[2].field = "paket.harga"

\* C26: the data query of a get_page call has LIMIT size and OFFSET
\* max(0, page - 1) * size; a call with page < 1 is answered as the call with
\* page = 1 is: the same queries, the same status and the same rows.
C26_LimitAndOffset ==
    resp.op = "get_page" =>
        /\ Len(resp.queries) = 2 =>
              /\ resp.queries[2].limit = resp.request.size
              /\ resp.queries[2].offset
                    = (IF resp.request.page - 1 > 0 THEN resp.request.page - 1 ELSE 0)
                         * resp.request.size
        /\ (resp.request.page < 1 /\ resp.raised # "duckdb.Error") =>
              \E tie \in Perms({row.id : row \in CountedRows}), stream \in NoiseStreams :
                 LET first == get_page(resp.request.source, 1, resp.request.size,
                                       resp.request.sort, resp.request.direction,
                                       resp.request.filters, tie, stream)
                 IN  /\ first.queries = resp.queries
                     /\ first.status = resp.status
                     /\ first.body.content = resp.body.content

\* page 0 of size 2 has been answered with the first two of three rows
C26_Witness ==
    /\ resp.op = "get_page" /\ resp.status = 200
    /\ resp.request.page = 0 /\ resp.request.size = 2
    /\ resp.queries[2].offset = 0
    /\ resp.body.total_elements = 3
    /\ resp.body.number_of_elements = 2

\* C27: a get_page call executes the count query, then at most the data
\* query, and nothing else; when the count query fails no data query is
\* executed, and when either fails the call ends with that failure and
\* without a page.
C27_NoRetry ==
    resp.op = "get_page" =>
        /\ Len(resp.queries) \in {1, 2}
        /\ resp.queries[1].kind = "count"
        /\ Len(resp.queries) = 2 => resp.queries[2].kind = "data"
        /\ Len(resp.queries) = 1 => resp.raised = "duckdb.Error"
        /\ resp.raised = "duckdb.Error" => resp.status = 500 /\ resp.body = NoBody
        /\ resp.status = 200 => Len(resp.queries) = 2 /\ resp.raised = ""

\* a count query that storage refused has ended the call
C27_Witness ==
    /\ resp.op = "get_page"
    /\ Len(resp.queries) = 1
    /\ resp.raised = "duckdb.Error"
    /\ resp.status = 500

\* C28: a reset token is single-use. No token a reset succeeded with is
\* stored for any user, and a reset_password call whose token was used
\* before, was never issued, or is stored with an expiry that has passed
\* answers 400 and changes neither the users nor the tokens; a call that
\* answers 200 leaves its token stored for no user.
C28_ResetTokenSingleUse ==
    /\ [](\A u \in users : u.reset_token \notin auth.used)
    /\ [][(resp = NoResp /\ resp'.op = "reset_password") =>
            LET t == resp'.request.token
            IN  /\ resp'.status \in {200, 400}
                /\ ( \/ t \in auth.used
                     \/ t \notin auth.issued
                     \/ \E u \in users : u.reset_token = t
                                         /\ u.reset_token_expires <= auth.now )
                   => resp'.status = 400 /\ UNCHANGED <<users, auth>>
                /\ resp'.status = 200 =>
                      /\ t \in auth'.used
                      /\ \A u \in users' : u.reset_token # t]_vars

\* a reset token was used for a password reset and a later call with the same
\* token has just been rejected, the password being that of the first call
C28_Witness ==
    /\ resp.op = "reset_password"
    /\ resp.status = 400
    /\ resp.request.token \in auth.used
    /\ Cardinality(users) = 2
    /\ \E u \in users : u.hashed_password = get_password_hash(1)
    /\ resp.request.new_password = 2

\* C29: however get_connection's entry and exit and close_all interleave,
\* the list of pooled connections is never longer than pool_size, holds no
\* connection a thread holds and holds no connection twice; a thread that
\* is not inside get_connection can always enter it, and one that enters
\* while the list is empty gets a connection opened for it, which is open,
\* held by no other thread and not in the list.
C29_PoolBounded ==
    /\ [](/\ Len(db.connections) <= db.pool_size
          /\ \A k \in 1..Len(db.connections) :
                /\ db.connections[k] \notin Held
                /\ \A j \in 1..Len(db.connections) :
                      db.connections[j] = db.connections[k] => j = k
          /\ \A r \in Requests : db.at[r] = "idle" => ENABLED get_connection(r))
    /\ [][\A r \in Requests :
            (db.at[r] = "idle" /\ db.at'[r] = "yield" /\ db.connections = <<>>) =>
                /\ db.conn'[r] # None
                /\ db.conn'[r] \notin Held
                /\ db.conn'[r] \notin db.closed'
                /\ db.connections' = <<>>]_vars

\* the list is full with a connection that was opened for a thread when the
\* list was empty, and another thread holds a connection it cannot give back
C29_Witness ==
    /\ Len(db.connections) = db.pool_size
    /\ \E k \in 1..Len(db.connections) : db.connections[k] > pool_size
    /\ \E r \in Requests : db.at[r] = "returned" /\ db.conn[r] # None

\* C30: every item of a tagihan page comes from a row of the join whose
\* tagihan id the item's id decodes to, whose pelanggan id the nested
\* pelanggan's id decodes to, whose paket id the nested paket's id decodes
\* to and whose paket name is the nested paket's name.
C30_TagihanMappedFromItsRow ==
    (resp.op = "get_page" /\ resp.status = 200 /\ resp.request.source = "tagihan") =>
        \A k \in 1..Len(resp.body.content) :
            \E row \in TagihanJoin :
                /\ decode(resp.body.content[k].id).value = row.id
                /\ decode(resp.body.content[k].pelanggan.id).value = row.pelanggan_id
                /\ decode(resp.body.content[k].paket.id).value = row.paket_pelanggan
                /\ resp.body.content[k].paket.nama = row.nama_paket

====
